---------------------------- MODULE Spec2Model ----------------------------
(***************************************************************************)
(* A model of the obsidian-to-html export plugin: the LinkResolver         *)
(* (src/src/services/link-resolver.ts), the HtmlExportService              *)
(* (src/unnamed/part_001, the current services/html-export.ts) and the     *)
(* plugin's command (src/src/main.ts).                                     *)
(*                                                                         *)
(* A JavaScript string is modelled as a sequence of one-character strings, *)
(* so that split, trim, replace, encodeURIComponent and the regular        *)
(* expressions of the source are computed character by character.  The     *)
(* grave accent, which a TLA+ string cannot hold, is the one-element       *)
(* string "&#96;".                                                         *)
(***************************************************************************)
EXTENDS Integers, Sequences, FiniteSets, TLC

(***************************************************************************)
(* Bounds of the model.                                                    *)
(***************************************************************************)
MaxFromDirs == 3
MaxToSegs == 3
MaxItems == 2
MaxFiles == 3
MaxBuilds == 2
MaxRuns == 2
MaxSlugSegs == 2
MaxSlugCalls == 2
MaxParams == 2
MaxEmbeds == 2
MaxRuleLines == 4

(***************************************************************************)
(* String primitives (methods of String.prototype and Array.prototype).    *)
(***************************************************************************)
RECURSIVE Cat(_)
Cat(ss) == IF ss = <<>> THEN <<>> ELSE Head(ss) \o Cat(Tail(ss))

StartsWithAt(s, i, p) ==
    /\ i >= 1
    /\ i + Len(p) - 1 <= Len(s)
    /\ SubSeq(s, i, i + Len(p) - 1) = p

EndsWith(s, p) == Len(p) <= Len(s) /\ SubSeq(s, Len(s) - Len(p) + 1, Len(s)) = p

\* The element of a singleton: The({e : x \in {v}}) is e with x standing for
\* the value of v.
The(S) == CHOOSE x \in S : TRUE

Min(S) == CHOOSE x \in S : \A y \in S : x <= y
Max(S) == CHOOSE x \in S : \A y \in S : y <= x

\* String.prototype.indexOf(p, from), 1-based; 0 when p does not occur.
IndexOfFrom(s, p, i) ==
    The({IF at = {} THEN 0 ELSE Min(at) :
            at \in {{j \in i..(Len(s) - Len(p) + 1) : StartsWithAt(s, j, p)}}})

Includes(s, p) == IndexOfFrom(s, p, 1) # 0

\* The first position >= i holding a character of cs; Len(s) + 1 when there
\* is none.
FindAny(s, cs, i) ==
    The({IF at = {} THEN Len(s) + 1 ELSE Min(at) : at \in {{j \in i..Len(s) : s[j] \in cs}}})

FindChar(s, c, i) == FindAny(s, {c}, i)

\* String.prototype.split(sep) for a one-character separator: the k-th piece
\* runs from after the (k-1)-th separator to before the k-th, at being the
\* places of the separators.
Split(s, sep) ==
    The({[k \in 1..(Cardinality(at) + 1) |->
             SubSeq(s,
                    Max({0} \cup {x \in at : Cardinality({y \in at : y < x}) = k - 2}) + 1,
                    Min({Len(s) + 1} \cup {x \in at : Cardinality({y \in at : y < x}) = k - 1}) - 1)] :
            at \in {{j \in 1..Len(s) : s[j] = sep}}})

\* Array.prototype.join(sep).
RECURSIVE Join(_, _)
Join(parts, sep) ==
    IF parts = <<>> THEN <<>>
    ELSE IF Len(parts) = 1 THEN parts[1]
    ELSE parts[1] \o sep \o Join(Tail(parts), sep)

IsSpace(c) == c \in {" ", "\n", "\t", "\r"}

RECURSIVE TrimStart(_)
TrimStart(s) == IF s # <<>> /\ IsSpace(Head(s)) THEN TrimStart(Tail(s)) ELSE s

RECURSIVE TrimEnd(_)
TrimEnd(s) ==
    IF s # <<>> /\ IsSpace(s[Len(s)]) THEN TrimEnd(SubSeq(s, 1, Len(s) - 1)) ELSE s

Trim(s) == TrimEnd(TrimStart(s))

\* String.prototype.repeat(n).
RECURSIVE Repeat(_, _)
Repeat(s, n) == IF n = 0 THEN <<>> ELSE s \o Repeat(s, n - 1)

\* Array.prototype.filter(Boolean) on an array of strings: drops the empty ones.
RECURSIVE FilterNonEmpty(_)
FilterNonEmpty(parts) ==
    IF parts = <<>> THEN <<>>
    ELSE (IF Head(parts) = <<>> THEN <<>> ELSE <<Head(parts)>>)
         \o FilterNonEmpty(Tail(parts))

(***************************************************************************)
(* slug (the npm package imported by link-resolver.ts): lowercase, every   *)
(* run of non-alphanumeric characters becomes one hyphen, leading and      *)
(* trailing hyphens are trimmed.                                           *)
(***************************************************************************)
UpperToLower ==
    [c \in {"A","B","C","D","E","F","G","H","I","J","K","L","M","N","O","P","Q",
            "R","S","T","U","V","W","X","Y","Z","{D4}"} |->
       CASE c = "A" -> "a" [] c = "B" -> "b" [] c = "C" -> "c" [] c = "D" -> "d"
         [] c = "E" -> "e" [] c = "F" -> "f" [] c = "G" -> "g" [] c = "H" -> "h"
         [] c = "I" -> "i" [] c = "J" -> "j" [] c = "K" -> "k" [] c = "L" -> "l"
         [] c = "M" -> "m" [] c = "N" -> "n" [] c = "O" -> "o" [] c = "P" -> "p"
         [] c = "Q" -> "q" [] c = "R" -> "r" [] c = "S" -> "s" [] c = "T" -> "t"
         [] c = "U" -> "u" [] c = "V" -> "v" [] c = "W" -> "w" [] c = "X" -> "x"
         [] c = "Y" -> "y" [] c = "Z" -> "z" [] c = "{D4}" -> "{F4}"]

LowerChars ==
    {"a","b","c","d","e","f","g","h","i","j","k","l","m","n","o","p","q",
     "r","s","t","u","v","w","x","y","z"}

DigitChars == {"0","1","2","3","4","5","6","7","8","9"}

ToLowerChar(c) == IF c \in DOMAIN UpperToLower THEN UpperToLower[c] ELSE c

\* String.prototype.toLowerCase().
ToLowerCase(s) == [i \in 1..Len(s) |-> ToLowerChar(s[i])]

IsAlnum(c) == ToLowerChar(c) \in LowerChars \cup DigitChars

\* acc is the slug so far; pending is TRUE when a run of non-alphanumeric
\* characters has been seen since the last character that was kept.
RECURSIVE SlugAcc(_, _, _, _)
SlugAcc(s, i, acc, pending) ==
    IF i > Len(s) THEN acc
    ELSE IF IsAlnum(s[i])
         THEN SlugAcc(s, i + 1,
                      (IF pending /\ acc # <<>> THEN Append(acc, "-") ELSE acc)
                          \o <<ToLowerChar(s[i])>>,
                      FALSE)
         ELSE SlugAcc(s, i + 1, acc, TRUE)

slug(s) == SlugAcc(s, 1, <<>>, FALSE)

(***************************************************************************)
(* LinkResolver.createSluggedPath and LinkResolver.getRelativePath.        *)
(***************************************************************************)
DotMd == <<".", "m", "d">>
DotHtml == <<".", "h", "t", "m", "l">>
Slash == <<"/">>
DotDot == <<".", ".">>
DotSlash == <<".", "/">>

\* A part slugged with its extension, and '.md' appended to that.
SlugPartWithExt(part) ==
    IF EndsWith(part, DotMd) THEN slug(part) \o DotMd ELSE slug(part)

SlugPart(part) ==
    IF EndsWith(part, DotMd)
    THEN slug(SubSeq(part, 1, Len(part) - 3)) \o DotMd
    ELSE slug(part)

createSluggedPath(filePath) ==
    The({Join([i \in 1..Len(pathParts) |-> SlugPart(pathParts[i])], Slash) :
            pathParts \in {Split(filePath, "/")}})

RECURSIVE CommonLengthFrom(_, _, _)
CommonLengthFrom(fromParts, toParts, n) ==
    IF n < Len(fromParts) /\ n < Len(toParts) /\ fromParts[n + 1] = toParts[n + 1]
    THEN CommonLengthFrom(fromParts, toParts, n + 1)
    ELSE n

\* '..'.repeat(upLevels): ONE array element holding 2 * upLevels dots.
UpSegments(upLevels) == Repeat(DotDot, upLevels)

getRelativePath(from, to) ==
    The({The({The({IF joined = <<>> THEN DotSlash ELSE joined :
                      joined \in {Join(FilterNonEmpty(
                                           <<UpSegments(Len(fromParts) - commonLength)>>
                                           \o SubSeq(toParts, commonLength + 1, Len(toParts))),
                                       Slash)}}) :
                 commonLength \in {CommonLengthFrom(fromParts, toParts, 0)}}) :
            fromParts \in {SubSeq(Split(from, "/"), 1, Len(Split(from, "/")) - 1)},
            toParts \in {Split(to, "/")}})

(***************************************************************************)
(* The host application (Obsidian): the vault's files and the linkpath     *)
(* resolution of app.metadataCache.getFirstLinkpathDest.                   *)
(***************************************************************************)
None == <<"<none>">>          \* null / undefined
URIError == <<"<URIError>">>  \* the exception decodeURIComponent raises

NotePaths ==
    {<<"N",".","m","d">>, <<"M",".","m","d">>, <<"D","/","T",".","m","d">>, <<"s",".","m","d">>, <<"D","/","s",".","m","d">>, <<"D","/","E","/","s",".","m","d">>, <<"t","p","l",".","m","d">>}

MediaPaths == {<<"i","m","g","/","p",".","p","n","g">>, <<"B",".","J","P","G">>, <<"v",".","m","p","4">>, <<"c",".","o","g","v">>, <<"n",".","t","x","t">>}

VaultFiles == NotePaths \cup MediaPaths

\* TFile.name: the last segment of the path.
FileName(path) == LET p == Split(path, "/") IN p[Len(p)]

\* TFile.basename: the name without its extension.
FileBasename(path) ==
    The({IF \A i \in 1..Len(name) : name[i] # "." THEN name
         ELSE SubSeq(name, 1, Max({i \in 1..Len(name) : name[i] = "."}) - 1) :
            name \in {FileName(path)}})

FileDir(path) == LET p == Split(path, "/") IN Join(SubSeq(p, 1, Len(p) - 1), Slash)

StripMd(path) ==
    IF EndsWith(path, DotMd) THEN SubSeq(path, 1, Len(path) - 3) ELSE path

\* A file answers to its path and to its name, with or without the .md
\* extension, compared case-insensitively.
LinkpathNames(file) ==
    {ToLowerCase(file), ToLowerCase(StripMd(file)),
     ToLowerCase(FileName(file)), ToLowerCase(StripMd(FileName(file)))}

\* The empty linkpath (as in [[#heading]]) is the source document itself.
\* Among several candidates the one in the source's folder is preferred, then
\* the one with the shortest path.
getFirstLinkpathDest(linkpath, source) ==
    IF linkpath = <<>> THEN (IF source \in VaultFiles THEN source ELSE None)
    ELSE The({IF cands = {} THEN None
              ELSE The({CHOOSE f \in pool : \A g \in pool : Len(f) <= Len(g) :
                           pool \in {IF \E f \in cands : FileDir(f) = FileDir(source)
                                     THEN {f \in cands : FileDir(f) = FileDir(source)}
                                     ELSE cands}}) :
                 cands \in {{f \in VaultFiles : ToLowerCase(linkpath) \in LinkpathNames(f)}}})

(***************************************************************************)
(* encodeURIComponent / decodeURIComponent on the characters of the model. *)
(***************************************************************************)
UnreservedMarks == {"-", "_", ".", "!", "~", "*", "'", "(", ")"}

\* The characters of the model that encodeURIComponent escapes, with the
\* escapes of their UTF-8 bytes. "{F8FF}", "{FC}", ... are the characters
\* U+F8FF, U+00FC, ... of the two icons of processMediaEmbedsInMarkdown.
PercentCode ==
    [c \in {" ", "\"", "#", "$", "%", "&", "+", ",", "/", ":", ";", "<", "=", ">", "?",
            "@", "[", "\\", "]", "^", "&#96;", "{", "|", "}", "\n", "\t",
            "{F8FF}", "{FC}", "{E9}", "{FB}", "{D4}", "{F4}", "{220F}", "{E8}", "{F1}", "{BA}"} |->
       CASE c = " " -> <<"%","2","0">> [] c = "\"" -> <<"%","2","2">> [] c = "#" -> <<"%","2","3">>
         [] c = "$" -> <<"%","2","4">> [] c = "%" -> <<"%","2","5">> [] c = "&" -> <<"%","2","6">>
         [] c = "+" -> <<"%","2","B">> [] c = "," -> <<"%","2","C">> [] c = "/" -> <<"%","2","F">>
         [] c = ":" -> <<"%","3","A">> [] c = ";" -> <<"%","3","B">> [] c = "<" -> <<"%","3","C">>
         [] c = "=" -> <<"%","3","D">> [] c = ">" -> <<"%","3","E">> [] c = "?" -> <<"%","3","F">>
         [] c = "@" -> <<"%","4","0">> [] c = "[" -> <<"%","5","B">> [] c = "\\" -> <<"%","5","C">>
         [] c = "]" -> <<"%","5","D">> [] c = "^" -> <<"%","5","E">> [] c = "&#96;" -> <<"%","6","0">>
         [] c = "{" -> <<"%","7","B">> [] c = "|" -> <<"%","7","C">> [] c = "}" -> <<"%","7","D">>
         [] c = "\n" -> <<"%","0","A">> [] c = "\t" -> <<"%","0","9">>
         [] c = "{F8FF}" -> <<"%","E","F","%","A","3","%","B","F">> [] c = "{FC}" -> <<"%","C","3","%","B","C">>
         [] c = "{E9}" -> <<"%","C","3","%","A","9">> [] c = "{FB}" -> <<"%","C","3","%","B","B">>
         [] c = "{D4}" -> <<"%","C","3","%","9","4">> [] c = "{F4}" -> <<"%","C","3","%","B","4">>
         [] c = "{220F}" -> <<"%","E","2","%","8","8","%","8","F">> [] c = "{E8}" -> <<"%","C","3","%","A","8">>
         [] c = "{F1}" -> <<"%","C","3","%","B","1">> [] c = "{BA}" -> <<"%","C","2","%","B","A">>]

\* An encoding that leaves "%" as it is.
EncodeCharKeepPercent(c) ==
    IF IsAlnum(c) \/ c \in UnreservedMarks \/ c = "%" THEN <<c>> ELSE PercentCode[c]

EncodeChar(c) ==
    IF IsAlnum(c) \/ c \in UnreservedMarks THEN <<c>> ELSE PercentCode[c]

\* The encoding of s[lo..hi].
RECURSIVE EncodeRange(_, _, _)
EncodeRange(s, lo, hi) ==
    IF lo > hi THEN <<>>
    ELSE IF lo = hi THEN EncodeChar(s[lo])
    ELSE EncodeRange(s, lo, (lo + hi) \div 2) \o EncodeRange(s, (lo + hi) \div 2 + 1, hi)

encodeURIComponent(s) == EncodeRange(s, 1, Len(s))

\* UTF-8: the first hexadecimal digit of an escaped byte tells a continuation
\* byte (8..B) from a first byte, and of a first byte how many escaped bytes
\* its character takes (3 characters of the string each).
IsContinuation(d) == d \in {"8", "9", "A", "B"}

EscapeLen(d) ==
    IF d \in {"C", "D"} THEN 6 ELSE IF d = "E" THEN 9 ELSE IF d = "F" THEN 12 ELSE 3

\* The character an escape sequence stands for.
DecodeEscape(e) == CHOOSE c \in DOMAIN PercentCode : PercentCode[c] = e

\* The "%" at i begins the escape sequence of a character of the model.
IsEscapeAt(s, i) ==
    /\ i + 2 <= Len(s)
    /\ ~IsContinuation(s[i + 1])
    /\ i + EscapeLen(s[i + 1]) - 1 <= Len(s)
    /\ \E c \in DOMAIN PercentCode :
           PercentCode[c] = SubSeq(s, i, i + EscapeLen(s[i + 1]) - 1)

\* The decoding of s[lo..hi], s holding only well-formed escape sequences: the
\* "%" of a character's first byte yields the character, the "%" of a
\* continuation byte and the two digits after a "%" nothing, any other
\* character itself.
RECURSIVE DecodeRange(_, _, _)
DecodeRange(s, lo, hi) ==
    IF lo > hi THEN <<>>
    ELSE IF lo = hi
         THEN IF s[lo] = "%"
              THEN IF IsContinuation(s[lo + 1]) THEN <<>>
                   ELSE <<DecodeEscape(SubSeq(s, lo, lo + EscapeLen(s[lo + 1]) - 1))>>
              ELSE IF (lo >= 2 /\ s[lo - 1] = "%") \/ (lo >= 3 /\ s[lo - 2] = "%") THEN <<>>
              ELSE <<s[lo]>>
    ELSE DecodeRange(s, lo, (lo + hi) \div 2) \o DecodeRange(s, (lo + hi) \div 2 + 1, hi)

\* URIError when a "%" neither begins an escape sequence nor continues one.
decodeURIComponent(s) ==
    IF \A i \in 1..Len(s) :
           s[i] = "%" =>
               \/ IsEscapeAt(s, i)
               \/ /\ i + 2 <= Len(s)
                  /\ IsContinuation(s[i + 1])
                  /\ \E k \in 1..3 :
                         /\ i - 3 * k >= 1
                         /\ s[i - 3 * k] = "%"
                         /\ IsEscapeAt(s, i - 3 * k)
                         /\ EscapeLen(s[i - 3 * k + 1]) > 3 * k
    THEN DecodeRange(s, 1, Len(s))
    ELSE URIError

(***************************************************************************)
(* String.prototype.replace with a global regular expression and a         *)
(* replacement function: the matches, left to right and not overlapping,   *)
(* and the substitution of one replacement per match.                      *)
(***************************************************************************)
NoMatch == [from |-> 0]

\* /\[\[([^\]]+)\]\]/ anchored at i: the group is the whole run of characters
\* other than "]" after the "[[", and "]]" must follow it.
WikiMatchAt(s, i) ==
    IF ~StartsWithAt(s, i, <<"[","[">>) THEN NoMatch
    ELSE The({IF j > i + 2 /\ StartsWithAt(s, j, <<"]","]">>)
              THEN [from |-> i, to |-> j + 1, content |-> SubSeq(s, i + 2, j - 1)]
              ELSE NoMatch :
                 j \in {FindChar(s, "]", i + 2)}})

\* linkRegex = /\[\[([^\]]+)\]\]/g
RECURSIVE LinkMatches(_, _)
LinkMatches(s, i) ==
    The({IF j = 0 THEN <<>>
         ELSE The({IF m.from # 0 THEN <<m>> \o LinkMatches(s, m.to + 1)
                   ELSE LinkMatches(s, j + 1) :
                      m \in {WikiMatchAt(s, j)}}) :
            j \in {IndexOfFrom(s, <<"[","[">>, i)}})

\* embedRegex = /!\[\[([^\]]+)\]\]/g
RECURSIVE EmbedMatches(_, _)
EmbedMatches(s, i) ==
    The({IF j = 0 THEN <<>>
         ELSE The({IF m.from # 0
                   THEN <<[from |-> j, to |-> m.to, content |-> m.content]>>
                            \o EmbedMatches(s, m.to + 1)
                   ELSE EmbedMatches(s, j + 1) :
                      m \in {WikiMatchAt(s, j + 1)}}) :
            j \in {IndexOfFrom(s, <<"!","[","[">>, i)}})

\* s with matches ms[k..] replaced by reps[k..]; i is the next character of s.
RECURSIVE Substitute(_, _, _, _, _)
Substitute(s, ms, reps, k, i) ==
    IF k > Len(ms) THEN SubSeq(s, i, Len(s))
    ELSE SubSeq(s, i, ms[k].from - 1) \o reps[k]
             \o Substitute(s, ms, reps, k + 1, ms[k].to + 1)

(***************************************************************************)
(* LinkResolver: the Path Mapping Table.                                   *)
(***************************************************************************)
EmptyMap == [x \in {} |-> <<>>]

\* Map.prototype.set.
MapSet(m, k, v) == [x \in DOMAIN m \cup {k} |-> IF x = k THEN v ELSE m[x]]

EmptyTable == [pathToSlugMap |-> EmptyMap, slugToPathMap |-> EmptyMap, exportedFiles |-> {}]

\* A loop turn that files the file's name, not its path, in the inverse map.
AddMappingByName(t, path) ==
    The({[pathToSlugMap |-> MapSet(t.pathToSlugMap, path, sluggedPath),
          slugToPathMap |-> MapSet(t.slugToPathMap, sluggedPath, FileName(path)),
          exportedFiles |-> t.exportedFiles \cup {path}] :
            sluggedPath \in {createSluggedPath(path)}})

\* One turn of buildPathMappings' loop.
AddMapping(t, path) ==
    The({[pathToSlugMap |-> MapSet(t.pathToSlugMap, path, sluggedPath),
          slugToPathMap |-> MapSet(t.slugToPathMap, sluggedPath, path),
          exportedFiles |-> t.exportedFiles \cup {path}] :
            sluggedPath \in {createSluggedPath(path)}})

RECURSIVE AddMappings(_, _)
AddMappings(t, files) ==
    IF files = <<>> THEN t ELSE AddMappings(AddMapping(t, Head(files)), Tail(files))

\* A build that forgets the three clear() calls.
BuildWithoutClear(old, files) == AddMappings(old, files)

\* buildPathMappings(files), on a resolver whose table is old.
buildPathMappings(old, files) == AddMappings(EmptyTable, files)

\* A lookup that hands back the path itself when the table has no entry.
GetCachedSlugOrPath(t, filePath) ==
    IF filePath \in DOMAIN t.pathToSlugMap /\ t.pathToSlugMap[filePath] # <<>>
    THEN t.pathToSlugMap[filePath]
    ELSE filePath

\* this.pathToSlugMap.get(filePath) || this.createSluggedPath(filePath)
getSluggedPath(t, filePath) ==
    IF filePath \in DOMAIN t.pathToSlugMap /\ t.pathToSlugMap[filePath] # <<>>
    THEN t.pathToSlugMap[filePath]
    ELSE createSluggedPath(filePath)

AlwaysExported(t, filePath) == TRUE

isFileExported(t, filePath) == filePath \in t.exportedFiles

(***************************************************************************)
(* LinkResolver: wiki links.                                               *)
(***************************************************************************)
BrokenScheme == <<"o","b","s","i","d","i","a","n","-","b","r","o","k","e","n",":">>

\* linkText.replace(/^\[\[|\]\]$/g, '')
StripBrackets(s) ==
    The({IF EndsWith(a, <<"]","]">>) THEN SubSeq(a, 1, Len(a) - 2) ELSE a :
            a \in {IF StartsWithAt(s, 1, <<"[","[">>) THEN SubSeq(s, 3, Len(s)) ELSE s}})

resolveInternalLink(linkText, source) ==
    The({The({IF targetFile # None
              THEN [path |-> targetFile,
                    subpath |-> IF Len(hashParts) >= 2 THEN Trim(hashParts[2]) ELSE None]
              ELSE [path |-> None, subpath |-> None] :
                 targetFile \in {getFirstLinkpathDest(Trim(hashParts[1]), source)}}) :
            hashParts \in {Split(Trim(Split(StripBrackets(linkText), "|")[1]), "#")}})

\* sluggedTargetPath.replace(/\.md$/, '.html')
MdToHtml(p) == IF EndsWith(p, DotMd) THEN SubSeq(p, 1, Len(p) - 3) \o DotHtml ELSE p

\* const linkText, displayText of the replacement callback.
LinkTextOf(linkContent) == Trim(Split(linkContent, "|")[1])

DisplayTextOf(linkContent) ==
    The({IF Len(parts) >= 2 /\ Trim(parts[2]) # <<>>
         THEN Trim(parts[2])
         ELSE Split(Trim(parts[1]), "#")[1] :
            parts \in {Split(linkContent, "|")}})

BrokenMarker(displayText, linkText) ==
    <<"[">> \o displayText \o <<"]","(">> \o BrokenScheme \o encodeURIComponent(linkText) \o <<")">>

\* The callback of processedContent.replace(linkRegex, ...).
LinkReplacement(t, linkContent, source) ==
    The({The({IF resolved.path # None /\ resolved.path # <<>>
                 /\ isFileExported(t, resolved.path)
              THEN The({<<"[">> \o displayText \o <<"]","(">>
                        \o getRelativePath(source,
                               IF resolved.subpath # None /\ resolved.subpath # <<>>
                               THEN htmlPath \o <<"#">> \o slug(resolved.subpath)
                               ELSE htmlPath)
                        \o <<")">> :
                           htmlPath \in {MdToHtml(getSluggedPath(t, resolved.path))}})
              ELSE BrokenMarker(displayText, linkText) :
                 resolved \in {resolveInternalLink(<<"[","[">> \o linkText \o <<"]","]">>, source)}}) :
            linkText \in {LinkTextOf(linkContent)},
            displayText \in {DisplayTextOf(linkContent)}})

(***************************************************************************)
(* LinkResolver: media embeds.                                             *)
(***************************************************************************)
imageExtensions == {<<".","p","n","g">>, <<".","j","p","g">>, <<".","j","p","e","g">>, <<".","g","i","f">>, <<".","s","v","g">>, <<".","w","e","b","p">>, <<".","a","v","i","f">>}
videoExtensions == {<<".","m","p","4">>, <<".","w","e","b","m">>, <<".","m","o","v">>, <<".","m","4","v">>, <<".","o","g","g">>}

HexDigits == DigitChars \cup {"a", "b", "c", "d", "e", "f"}

DigitValue(c) ==
    CASE c = "0" -> 0 [] c = "1" -> 1 [] c = "2" -> 2 [] c = "3" -> 3 [] c = "4" -> 4
      [] c = "5" -> 5 [] c = "6" -> 6 [] c = "7" -> 7 [] c = "8" -> 8 [] c = "9" -> 9
      [] c = "a" -> 10 [] c = "b" -> 11 [] c = "c" -> 12 [] c = "d" -> 13
      [] c = "e" -> 14 [] c = "f" -> 15

\* The digits of s from position i on, read in the radix; n is the value so
\* far and seen tells whether a digit was read.
RECURSIVE ParseDigits(_, _, _, _, _)
ParseDigits(s, i, radix, n, seen) ==
    IF i <= Len(s)
       /\ ToLowerChar(s[i]) \in (IF radix = 16 THEN HexDigits ELSE DigitChars)
    THEN ParseDigits(s, i + 1, radix, n * radix + DigitValue(ToLowerChar(s[i])), TRUE)
    ELSE [nan |-> ~seen, val |-> n]

\* parseInt(s): leading white space, a sign, a 0x prefix, then digits.
parseInt(str) ==
    The({The({[nan |-> r.nan, val |-> IF s # <<>> /\ Head(s) = "-" THEN 0 - r.val ELSE r.val] :
                 r \in {IF StartsWithAt(ToLowerCase(u), 1, <<"0","x">>)
                        THEN ParseDigits(u, 3, 16, 0, FALSE)
                        ELSE ParseDigits(u, 1, 10, 0, FALSE)}}) :
            s \in {TrimStart(str)},
            u \in {IF TrimStart(str) # <<>> /\ Head(TrimStart(str)) \in {"-", "+"}
                   THEN Tail(TrimStart(str)) ELSE TrimStart(str)}})

NoWidth == 0    \* width undefined

RECURSIVE parseEmbedParametersFrom(_, _, _)
parseEmbedParametersFrom(params, altText, width) ==
    IF params = <<>> THEN [altText |-> altText, width |-> width]
    ELSE The({IF ~numParam.nan /\ numParam.val > 0
              THEN parseEmbedParametersFrom(Tail(params), altText, numParam.val)
              ELSE IF Len(param) > 0
                   THEN parseEmbedParametersFrom(Tail(params), param, width)
                   ELSE parseEmbedParametersFrom(Tail(params), altText, width) :
                 param \in {Head(params)},
                 numParam \in {parseInt(Head(params))}})

parseEmbedParameters(params) == parseEmbedParametersFrom(params, <<>>, NoWidth)

HasExtension(path, exts) == \E ext \in exts : EndsWith(ToLowerCase(path), ext)

\* The null that resolveMediaPath returns.
NoMedia == [file |-> None, type |-> "null"]

\* A resolver that takes every file of the vault for an image.
ResolveAnyFile(mediaPath, source) ==
    The({IF file = None THEN NoMedia ELSE [file |-> file, type |-> "image"] :
            file \in {getFirstLinkpathDest(mediaPath, source)}})

resolveMediaPath(mediaPath, source) ==
    The({IF file = None THEN NoMedia
         ELSE IF HasExtension(file, imageExtensions) THEN [file |-> file, type |-> "image"]
         ELSE IF HasExtension(file, videoExtensions) THEN [file |-> file, type |-> "video"]
         ELSE NoMedia :
            file \in {getFirstLinkpathDest(mediaPath, source)}})

getExtensionType(path) ==
    IF HasExtension(path, imageExtensions) THEN "image"
    ELSE IF HasExtension(path, videoExtensions) THEN "video"
    ELSE "null"

\* Number.prototype.toString of a non-negative integer.
DigitChar(d) ==
    CASE d = 0 -> "0" [] d = 1 -> "1" [] d = 2 -> "2" [] d = 3 -> "3" [] d = 4 -> "4"
      [] d = 5 -> "5" [] d = 6 -> "6" [] d = 7 -> "7" [] d = 8 -> "8" [] d = 9 -> "9"

RECURSIVE NumberToString(_)
NumberToString(n) ==
    IF n < 10 THEN <<DigitChar(n)>>
    ELSE Append(NumberToString(n \div 10), DigitChar(n % 10))

WidthStyle(width) == <<"s","t","y","l","e","=","\"","w","i","d","t","h",":"," ">> \o NumberToString(width) \o <<"p","x",";","\"">>

generateImageHtml(imageFile, source, width, altText) ==
    The({<<"<","i","m","g"," ">>
         \o Join(<<<<"s","r","c","=","\"">> \o relativeImagePath \o <<"\"">>,
                   <<"a","l","t","=","\"">> \o (IF altText # <<>> THEN altText ELSE FileBasename(imageFile))
                       \o <<"\"">>>>
                 \o (IF width > 0 THEN <<WidthStyle(width)>> ELSE <<>>),
                 <<" ">>)
         \o <<">">> :
            relativeImagePath \in {getRelativePath(source, <<"a","s","s","e","t","s","/">> \o FileName(imageFile))}})

getVideoMimeType(fileName) ==
    The({IF EndsWith(lower, <<".","m","p","4">>) \/ EndsWith(lower, <<".","m","4","v">>) THEN <<"v","i","d","e","o","/","m","p","4">>
         ELSE IF EndsWith(lower, <<".","w","e","b","m">>) THEN <<"v","i","d","e","o","/","w","e","b","m">>
         ELSE IF EndsWith(lower, <<".","m","o","v">>) THEN <<"v","i","d","e","o","/","q","u","i","c","k","t","i","m","e">>
         ELSE IF EndsWith(lower, <<".","o","g","g">>) THEN <<"v","i","d","e","o","/","o","g","g">>
         ELSE None :
            lower \in {ToLowerCase(fileName)}})

generateVideoHtml(videoFile, source, width, titleText) ==
    The({<<"<","v","i","d","e","o"," ">>
         \o Join(<<<<"c","o","n","t","r","o","l","s">>>>
                 \o (IF titleText # <<>> THEN <<<<"t","i","t","l","e","=","\"">> \o titleText \o <<"\"">>>> ELSE <<>>)
                 \o (IF width > 0 THEN <<WidthStyle(width)>> ELSE <<>>),
                 <<" ">>)
         \o <<">">>
         \o <<"<","s","o","u","r","c","e"," ","s","r","c","=","\"">> \o relativeVideoPath \o <<"\"">>
         \o (IF mimeType # None THEN <<" ","t","y","p","e","=","\"">> \o mimeType \o <<"\"">> ELSE <<>>)
         \o <<">">>
         \o <<"Y","o","u","r"," ","b","r","o","w","s","e","r"," ","d","o","e","s"," ","n","o","t"," ","s","u","p","p","o","r","t"," ","t","h","e"," ","v","i","d","e","o"," ","t","a","g",".","<","/","v","i","d","e","o",">">> :
            relativeVideoPath \in {getRelativePath(source, <<"a","s","s","e","t","s","/">> \o FileName(videoFile))},
            mimeType \in {getVideoMimeType(FileName(videoFile))}})

\* The two icons of the fallback span, character by character as the source
\* file holds them.
VideoIcon == <<"{F8FF}", "{FC}", "{E9}", "{FB}", "{D4}", "{220F}", "{E8}">>
ImageIcon == <<"{F8FF}", "{FC}", "{F1}", "{BA}", "{D4}", "{220F}", "{E8}">>

\* embedContent.split('|').map(p => p.trim())
TrimAll(parts) == [i \in 1..Len(parts) |-> Trim(parts[i])]

\* The callback of markdownContent.replace(embedRegex, ...).
EmbedReplacement(embedContent, source) ==
    The({The({IF resolved # NoMedia /\ resolved.type = "image"
              THEN generateImageHtml(resolved.file, source, params.width, params.altText)
              ELSE IF resolved # NoMedia /\ resolved.type = "video"
              THEN generateVideoHtml(resolved.file, source, params.width, params.altText)
              ELSE <<"<","s","p","a","n"," ","c","l","a","s","s","=","\"">>
                   \o (IF fallbackType = "video" THEN <<"b","r","o","k","e","n","-","v","i","d","e","o">> ELSE <<"b","r","o","k","e","n","-","i","m","a","g","e">>)
                   \o <<"\""," ","t","i","t","l","e","=","\"","M","e","d","i","a"," ","n","o","t"," ","f","o","u","n","d",":"," ">> \o parts[1] \o <<"\"",">">>
                   \o (IF fallbackType = "video" THEN VideoIcon ELSE ImageIcon)
                   \o <<" ">> \o parts[1] \o <<"<","/","s","p","a","n",">">> :
                 params \in {parseEmbedParameters(Tail(parts))},
                 resolved \in {resolveMediaPath(parts[1], source)},
                 fallbackType \in {getExtensionType(parts[1])}}) :
            parts \in {TrimAll(Split(embedContent, "|"))}})

processMediaEmbedsInMarkdown(markdown, source) ==
    The({Substitute(markdown, ms,
                    [k \in 1..Len(ms) |-> EmbedReplacement(ms[k].content, source)], 1, 1) :
            ms \in {EmbedMatches(markdown, 1)}})

processLinksInMarkdown(t, markdown, source) ==
    The({The({Substitute(processedContent, ms,
                         [k \in 1..Len(ms) |-> LinkReplacement(t, ms[k].content, source)],
                         1, 1) :
                 ms \in {LinkMatches(processedContent, 1)}}) :
            processedContent \in {processMediaEmbedsInMarkdown(markdown, source)}})

\* The [[...]] occurrences the link pass rewrites, with what it emits for each.
EmittedLinks(t, markdown, source) ==
    The({[k \in 1..Len(ms) |->
             [content |-> ms[k].content, out |-> LinkReplacement(t, ms[k].content, source)]] :
            ms \in {LinkMatches(processMediaEmbedsInMarkdown(markdown, source), 1)}})

(***************************************************************************)
(* LinkResolver.processDeadLinksInHtml.                                    *)
(***************************************************************************)
\* The part href="obsidian-broken: of brokenLinkRegex.
BrokenHref == <<"h","r","e","f","=","\"">> \o BrokenScheme

\* The rest of brokenLinkRegex once href="obsidian-broken: was found at k:
\* ([^"]*)"[^>]*>(.*?)<\/a>
DeadTailAt(s, k) ==
    The({The({The({IF q > Len(s) \/ g > Len(s) \/ e = 0 THEN NoMatch
                   ELSE IF FindChar(s, "\n", g + 1) < e THEN NoMatch
                   ELSE [from |-> k, to |-> e + 3,
                         enc |-> SubSeq(s, k + Len(BrokenHref), q - 1),
                         inner |-> SubSeq(s, g + 1, e - 1)] :
                      e \in {IndexOfFrom(s, <<"<","/","a",">">>, g + 1)}}) :
                 g \in {FindChar(s, ">", q + 1)}}) :
            q \in {FindChar(s, "\"", k + Len(BrokenHref))}})

\* /<a[^>]*href="obsidian-broken:([^"]*)"[^>]*>(.*?)<\/a>/ anchored at i. The
\* first [^>]* is greedy: of the places where the rest matches, the last one
\* before the first ">" is taken.
DeadMatchAt(s, i) ==
    IF ~StartsWithAt(s, i, <<"<","a">>) THEN NoMatch
    ELSE The({IF ks = {} THEN NoMatch
              ELSE The({[from |-> i, to |-> m.to, enc |-> m.enc, inner |-> m.inner] :
                           m \in {DeadTailAt(s, Max(ks))}}) :
                 ks \in {{k \in (i + 2)..FindChar(s, ">", i + 2) :
                             StartsWithAt(s, k, BrokenHref) /\ DeadTailAt(s, k).from # 0}}})

\* brokenLinkRegex, global.
RECURSIVE DeadMatches(_, _)
DeadMatches(s, i) ==
    The({IF j = 0 THEN <<>>
         ELSE The({IF m.from # 0 THEN <<m>> \o DeadMatches(s, m.to + 1)
                   ELSE DeadMatches(s, j + 1) :
                      m \in {DeadMatchAt(s, j)}}) :
            j \in {IndexOfFrom(s, <<"<","a">>, i)}})

\* A styling pass that wraps the anchor instead of replacing it.
DeadWrapped(m) ==
    <<"<","s","p","a","n"," ","c","l","a","s","s","=","\"","d","e","a","d","-","l","i","n","k","\""," ","t","i","t","l","e","=","\"","B","r","o","k","e","n"," ","l","i","n","k",":"," ">> \o decodeURIComponent(m.enc) \o <<"\"",">">>
    \o <<"<","a"," ">> \o BrokenHref \o m.enc \o <<"\"",">">> \o m.inner \o <<"<","/","a",">">> \o <<"<","/","s","p","a","n",">">>

\* The callback of htmlContent.replace(brokenLinkRegex, ...).
DeadReplacement(m) ==
    <<"<","s","p","a","n"," ","c","l","a","s","s","=","\"","d","e","a","d","-","l","i","n","k","\""," ","t","i","t","l","e","=","\"","B","r","o","k","e","n"," ","l","i","n","k",":"," ">> \o decodeURIComponent(m.enc) \o <<"\"",">">>
    \o m.inner \o <<"<","/","s","p","a","n",">">>

\* URIError when decodeURIComponent throws in the callback.
processDeadLinksInHtml(htmlContent) ==
    The({IF \E k \in 1..Len(ms) : decodeURIComponent(ms[k].enc) = URIError
         THEN URIError
         ELSE Substitute(htmlContent, ms, [k \in 1..Len(ms) |-> DeadReplacement(ms[k])], 1, 1) :
            ms \in {DeadMatches(htmlContent, 1)}})

(***************************************************************************)
(* MarkdownRenderer.renderMarkdown followed by tempDiv.innerHTML (Obsidian *)
(* and the DOM). Of Markdown the model keeps what the resolver's output    *)
(* relies on: a fenced code block keeps its text literally, an inline link *)
(* [text](destination) becomes an anchor, where the destination ends at    *)
(* the first ")" and holds no white space, no "(" and no "<" (a            *)
(* destination with balanced parentheses, which Markdown admits, is in no  *)
(* document of the model), an HTML tag is passed through, and the text is  *)
(* wrapped in a paragraph.                                                 *)
(***************************************************************************)
\* The fence of a code block.
Fence == <<"&#96;","&#96;","&#96;">>

\* An inline link at i, where s[i] = "[": the positions of "](" and ")".
InlineLinkAt(s, i) ==
    The({The({IF StartsWithAt(s, j, <<"]","(">>) /\ k <= Len(s) /\ s[k] = ")"
              THEN [close |-> j, end |-> k]
              ELSE [close |-> 0, end |-> 0] :
                 k \in {FindAny(s, {" ", "\n", "\t", "(", ")", "<"}, j + 2)}}) :
            j \in {FindAny(s, {"[", "]", "&#96;"}, i + 1)}})

\* The text up to the next "&#96;", "<" or "[" is copied; j is where that is.
RECURSIVE RenderInline(_, _)
RenderInline(s, i) ==
    The({IF j > Len(s) THEN SubSeq(s, i, Len(s))
         ELSE SubSeq(s, i, j - 1)
              \o (IF StartsWithAt(s, j, Fence) /\ IndexOfFrom(s, Fence, j + 3) # 0
                  THEN The({<<"<","p","r","e",">","<","c","o","d","e",">">> \o SubSeq(s, j + 3, e - 1) \o <<"<","/","c","o","d","e",">","<","/","p","r","e",">">>
                            \o RenderInline(s, e + 3) :
                               e \in {IndexOfFrom(s, Fence, j + 3)}})
                  ELSE IF s[j] = "<" /\ FindChar(s, ">", j + 1) <= Len(s)
                  THEN The({SubSeq(s, j, e) \o RenderInline(s, e + 1) :
                               e \in {FindChar(s, ">", j + 1)}})
                  ELSE IF s[j] = "[" /\ InlineLinkAt(s, j).close # 0
                  THEN The({<<"<","a"," ","h","r","e","f","=","\"">> \o SubSeq(s, l.close + 2, l.end - 1) \o <<"\"",">">>
                            \o SubSeq(s, j + 1, l.close - 1) \o <<"<","/","a",">">>
                            \o RenderInline(s, l.end + 1) :
                               l \in {InlineLinkAt(s, j)}})
                  ELSE <<s[j]>> \o RenderInline(s, j + 1)) :
            j \in {FindAny(s, {"&#96;", "<", "["}, i)}})

renderMarkdown(markdown) == <<"<","p",">">> \o RenderInline(markdown, 1) \o <<"<","/","p",">">>

(***************************************************************************)
(* State.                                                                  *)
(***************************************************************************)
VARIABLES
    linkResolver,       \* per HtmlExportService: its LinkResolver's three maps
    lastFiles,          \* per service: the argument of its last buildPathMappings
    builds,             \* per service: the number of buildPathMappings calls
    everBuilt,          \* per service: every path ever given to buildPathMappings
    fromPath,           \* getRelativePath's arguments ...
    toPath,
    relativePath,       \* ... and its result
    filePath,           \* createSluggedPath's argument ...
    sluggedPaths,       \* ... its result, and the results of applying it again
    markdownContent,    \* one document: the text read from the vault,
    sourcePath,         \* its vault path,
    processedContent,   \* the text after the 'exclude last horizontal rule' option,
    stage,              \* how far exportFileToHtml has taken it,
    processedMarkdown,  \* the result of processLinksInMarkdown,
    emitted,            \* what the link pass emitted for each [[...]],
    renderedHtml,       \* tempDiv.innerHTML after renderMarkdown,
    processedHtml,      \* the result of processDeadLinksInHtml,
    restyledHtml,       \* and of a second processDeadLinksInHtml
    embeds,             \* what the embed pass computed for each ![[...]],
    mediaReferences,    \* the result of getAllMediaReferences on the text
    settings,           \* the plugin's settings object
    run,                \* per invocation of the command: exportVault's locals
    outputFiles         \* the file system under the export path

tableVars == <<linkResolver, lastFiles, builds, everBuilt>>
relVars == <<fromPath, toPath, relativePath>>
slugVars == <<filePath, sluggedPaths>>
embedVars == <<embeds, mediaReferences>>
docVars == <<markdownContent, sourcePath, processedContent, stage, processedMarkdown, emitted,
             renderedHtml, processedHtml, restyledHtml>>
runVars == <<settings, run, outputFiles>>
vars == <<tableVars, relVars, slugVars, docVars, embedVars, runVars>>

Services == {1}

TablesIdle ==
    /\ linkResolver = [s \in Services |-> EmptyTable]
    /\ lastFiles = [s \in Services |-> <<>>]
    /\ builds = [s \in Services |-> 0]
    /\ everBuilt = [s \in Services |-> {}]

RelIdle == fromPath = None /\ toPath = None /\ relativePath = None

SlugIdle == filePath = None /\ sluggedPaths = <<>>

EmbedIdle == embeds = <<>> /\ mediaReferences = None

DocIdle ==
    /\ markdownContent = None
    /\ sourcePath = None
    /\ processedContent = None
    /\ stage = "idle"
    /\ processedMarkdown = None
    /\ emitted = <<>>
    /\ renderedHtml = None
    /\ processedHtml = None
    /\ restyledHtml = None

Runs == 1..MaxRuns

\* exportVault has not been called.
IdleRun ==
    [pc |-> "idle", templateContent |-> None, filteredFiles |-> <<>>,
     allExportFiles |-> <<>>, k |-> 0, allMediaFiles |-> <<>>, isIndex |-> FALSE,
     processedMarkdown |-> None, exportedHtmlPaths |-> {}, exportedCount |-> 0,
     notices |-> <<>>, built |-> 0, file |-> None, customFileName |-> FALSE,
     assetsDir |-> None]

DEFAULT_SETTINGS ==
    [exportPath |-> <<>>, includePatterns |-> <<"*","*","/","*",".","m","d">>, indexPage |-> <<>>,
     templateNote |-> <<>>, onlyIncludeNotesContaining |-> <<>>,
     excludeLastHorizontalRule |-> FALSE]

RunIdle ==
    /\ settings = DEFAULT_SETTINGS
    /\ run = [r \in Runs |-> IdleRun]
    /\ outputFiles = EmptyMap

SeqsUpTo(S, n) == UNION {[1..k -> S] : k \in 0..n}

(***************************************************************************)
(* SpecRel: getRelativePath on every pair of well-formed paths.            *)
(***************************************************************************)
SegNames == {<<"a">>, <<"b">>}
FileNames == {<<"x",".","m","d">>, <<"y",".","h","t","m","l">>}

RelFromPaths ==
    {Join(Append(d, f), Slash) : d \in SeqsUpTo(SegNames, MaxFromDirs), f \in FileNames}

RelToPaths ==
    {Join(Append(d, f), Slash) : d \in SeqsUpTo(SegNames, MaxToSegs - 1), f \in FileNames}

InitRel ==
    /\ fromPath \in RelFromPaths
    /\ toPath \in RelToPaths
    /\ relativePath = None
    /\ SlugIdle
    /\ EmbedIdle
    /\ TablesIdle
    /\ DocIdle
    /\ RunIdle

CallGetRelativePath ==
    /\ relativePath = None
    /\ relativePath' = getRelativePath(fromPath, toPath)
    /\ UNCHANGED <<fromPath, toPath, slugVars, embedVars, tableVars, docVars, runVars>>

NextRel == CallGetRelativePath

SpecRel == InitRel /\ [][NextRel]_vars

(***************************************************************************)
(* SpecTable: any sequence of buildPathMappings calls on one resolver.     *)
(***************************************************************************)
\* N.md and n.md, and D/T.md and d/t.md, have the same slugged path.
TablePaths == {<<"N",".","m","d">>, <<"n",".","m","d">>, <<"D","/","T",".","m","d">>, <<"d","/","t",".","m","d">>, <<"M","y"," ","N","o","t","e",".","m","d">>}

\* The lists of at most n distinct paths.
FileLists(paths, n) ==
    {l \in SeqsUpTo(paths, n) : \A i, j \in 1..Len(l) : i # j => l[i] # l[j]}

InitTable == TablesIdle /\ RelIdle /\ SlugIdle /\ EmbedIdle /\ DocIdle /\ RunIdle

BuildPathMappings(s, files) ==
    /\ linkResolver' = [linkResolver EXCEPT ![s] = buildPathMappings(linkResolver[s], files)]
    /\ lastFiles' = [lastFiles EXCEPT ![s] = files]
    /\ builds' = [builds EXCEPT ![s] = @ + 1]
    /\ everBuilt' = [everBuilt EXCEPT ![s] = @ \cup {files[i] : i \in 1..Len(files)}]

CallBuildPathMappings ==
    \E files \in FileLists(TablePaths, MaxFiles) :
        /\ builds[1] < MaxBuilds
        /\ BuildPathMappings(1, files)
        /\ UNCHANGED <<relVars, slugVars, embedVars, docVars, runVars>>

NextTable == CallBuildPathMappings

SpecTable == InitTable /\ [][NextTable]_vars

(***************************************************************************)
(* SpecLink: one document through exportFileToHtml's passes: the link      *)
(* pass, the renderer, the dead-link pass (and the dead-link pass again).  *)
(***************************************************************************)
\* The files of the export: every note but M.md and the template.
ExportList == <<<<"N",".","m","d">>, <<"D","/","T",".","m","d">>, <<"s",".","m","d">>, <<"D","/","s",".","m","d">>, <<"D","/","E","/","s",".","m","d">>>>

SourcePaths == {<<"s",".","m","d">>, <<"D","/","s",".","m","d">>, <<"D","/","E","/","s",".","m","d">>}

\* What a document is made of.
DocItems ==
    {<<"t">>,
     <<"[","[","N","]","]">>,
     <<"[","[","M","]","]">>,
     <<"[","[","Z","]","]">>,
     <<"[","[","N","#","H"," ","h","|","x"," ","y","]","]">>,
     <<"[","[","D","/","T","#","H","]","]">>,
     <<"[","[","N","#","H","#","K","|","x","|","y","]","]">>,
     <<"[","[","a",")","b","]","]">>,
     <<"[","[","a","(","b","]","]">>,
     <<"[","[","Z"," ","%","|","y","]","]">>,
     <<"\n","&#96;","&#96;","&#96;","\n","[","[","Z","]","]","\n","&#96;","&#96;","&#96;","\n">>,
     <<"!","[","[","p",".","p","n","g","|","c","|","3","0","]","]">>,
     <<"!","[","[","q",".","p","n","g","]","]">>,
     <<"!","[","[","a","[","[","q",".","p","n","g","]","]">>,
     <<"[","[">>,
     <<"[","t","]","(","N",".","h","t","m","l",")">>,
     <<"[","[","<","a"," ","h","r","e","f","=","\"","o","b","s","i","d","i","a","n","-","b","r","o","k","e","n",":","q","\"",">","r","<","/","a",">","|","t","]","]">>,
     <<"<","a"," ","d","a","t","a","-","h","r","e","f","=","\"","o","b","s","i","d","i","a","n","-","b","r","o","k","e","n",":","q","\""," ","h","r","e","f","=","\"","N",".","h","t","m","l","\"",">","t","<","/","a",">">>}

Documents == {Cat(items) : items \in SeqsUpTo(DocItems, MaxItems)}

InitLink ==
    /\ linkResolver = [s \in Services |-> buildPathMappings(EmptyTable, ExportList)]
    /\ lastFiles = [s \in Services |-> ExportList]
    /\ builds = [s \in Services |-> 1]
    /\ everBuilt = [s \in Services |-> {ExportList[i] : i \in 1..Len(ExportList)}]
    /\ RelIdle
    /\ SlugIdle
    /\ EmbedIdle
    /\ RunIdle
    /\ markdownContent \in Documents
    /\ sourcePath \in SourcePaths
    /\ processedContent = None
    /\ stage = "read"
    /\ processedMarkdown = None
    /\ emitted = <<>>
    /\ renderedHtml = None
    /\ processedHtml = None
    /\ restyledHtml = None

ProcessLinksInMarkdown ==
    /\ stage = "read"
    /\ processedMarkdown' = processLinksInMarkdown(linkResolver[1], markdownContent, sourcePath)
    /\ emitted' = EmittedLinks(linkResolver[1], markdownContent, sourcePath)
    /\ stage' = "linked"
    /\ UNCHANGED <<tableVars, relVars, slugVars, embedVars, runVars, markdownContent, sourcePath, processedContent, renderedHtml,
                   processedHtml, restyledHtml>>

RenderMarkdown ==
    /\ stage = "linked"
    /\ renderedHtml' = renderMarkdown(processedMarkdown)
    /\ stage' = "rendered"
    /\ UNCHANGED <<tableVars, relVars, slugVars, embedVars, runVars, markdownContent, sourcePath, processedContent, processedMarkdown,
                   emitted, processedHtml, restyledHtml>>

ProcessDeadLinksInHtml ==
    /\ stage = "rendered"
    /\ processedHtml' = processDeadLinksInHtml(renderedHtml)
    /\ stage' = "styled"
    /\ UNCHANGED <<tableVars, relVars, slugVars, embedVars, runVars, markdownContent, sourcePath, processedContent, processedMarkdown,
                   emitted, renderedHtml, restyledHtml>>

ProcessDeadLinksAgain ==
    /\ stage = "styled"
    /\ processedHtml # URIError
    /\ restyledHtml' = processDeadLinksInHtml(processedHtml)
    /\ stage' = "restyled"
    /\ UNCHANGED <<tableVars, relVars, slugVars, embedVars, runVars, markdownContent, sourcePath, processedContent, processedMarkdown,
                   emitted, renderedHtml, processedHtml>>

NextLink ==
    \/ ProcessLinksInMarkdown
    \/ RenderMarkdown
    \/ ProcessDeadLinksInHtml
    \/ ProcessDeadLinksAgain

SpecLink == InitLink /\ [][NextLink]_vars


(***************************************************************************)
(* SpecSlug: createSluggedPath on a vault path, and again on its result.   *)
(***************************************************************************)
\* Path segments: plain, with capitals and blanks, with punctuation at the
\* ends, with the extension of a note (once, twice, in capitals, alone) and
\* with another extension.
SlugSegs ==
    {<<"a">>, <<"B"," ","c">>, <<"-","x","-">>, <<"n",".","m","d">>, <<"M","y"," ","N","o","t","e",".","m","d">>, <<".","m","d">>, <<"a",".","m","d",".","m","d">>, <<"T",".","M","D">>,
     <<"p",".","P","N","G">>, <<"c","+","+"," ","(","2",")",".","m","d">>}

SlugPaths == {Join(p, Slash) : p \in SeqsUpTo(SlugSegs, MaxSlugSegs) \ {<<>>}}

InitSlug ==
    /\ filePath \in SlugPaths
    /\ sluggedPaths = <<>>
    /\ TablesIdle
    /\ RelIdle
    /\ EmbedIdle
    /\ DocIdle
    /\ RunIdle

CallCreateSluggedPath ==
    /\ Len(sluggedPaths) < MaxSlugCalls
    /\ sluggedPaths' =
           Append(sluggedPaths,
                  createSluggedPath(IF sluggedPaths = <<>> THEN filePath
                                    ELSE sluggedPaths[Len(sluggedPaths)]))
    /\ UNCHANGED <<filePath, tableVars, relVars, embedVars, docVars, runVars>>

NextSlug == CallCreateSluggedPath

SpecSlug == InitSlug /\ [][NextSlug]_vars

\* C13: slugging is idempotent: createSluggedPath applied to its own result
\* gives that result again. It works segment by segment: the result has as
\* many segments as the path, and a segment ending in '.md' gives the slug of
\* the segment without that suffix, followed by '.md'.
C13_SlugIdempotent ==
    /\ \A k \in 2..Len(sluggedPaths) : sluggedPaths[k] = sluggedPaths[1]
    /\ sluggedPaths # <<>> =>
           LET parts == Split(filePath, "/")
               slugged == Split(sluggedPaths[1], "/")
           IN /\ Len(slugged) = Len(parts)
              /\ \A i \in 1..Len(parts) :
                     EndsWith(parts[i], DotMd) =>
                         slugged[i] = slug(SubSeq(parts[i], 1, Len(parts[i]) - 3)) \o DotMd

\* C13's case: a note in a directory whose slugged path differs from its
\* path has been slugged, and the result has been slugged again.
C13_Witness ==
    /\ Len(sluggedPaths) >= 2
    /\ Len(Split(filePath, "/")) = 2
    /\ EndsWith(filePath, DotMd)
    /\ sluggedPaths[1] # filePath
    /\ \E i \in 1..Len(filePath) : filePath[i] = " "
(***************************************************************************)
(* Claims about the Relative Path Calculator (SpecRel).                    *)
(***************************************************************************)
\* Walking a relative path, one segment at a time, from a directory given as
\* its list of segments: ".." pops a segment, any other segment is pushed.
RECURSIVE Walk(_, _)
Walk(dir, segs) ==
    IF segs = <<>> THEN dir
    ELSE IF Head(segs) = DotDot
         THEN Walk(IF dir = <<>> THEN <<>> ELSE SubSeq(dir, 1, Len(dir) - 1), Tail(segs))
         ELSE Walk(Append(dir, Head(segs)), Tail(segs))

DirOf(path) == LET p == Split(path, "/") IN SubSeq(p, 1, Len(p) - 1)

\* C1 - as claimed: getRelativePath(fromPath, toPath) is one ".." segment per
\* directory segment of fromPath beyond the longest common leading-segment
\* prefix, followed by the segments of toPath beyond that prefix, joined by
\* "/"; walking it from the directory containing fromPath arrives at toPath.
C1_RelativePathAsClaimed ==
    relativePath # None =>
        LET fromParts == DirOf(fromPath)
            toParts == Split(toPath, "/")
            common == CommonLengthFrom(fromParts, toParts, 0)
            ups == [i \in 1..(Len(fromParts) - common) |-> DotDot]
            down == SubSeq(toParts, common + 1, Len(toParts))
        IN /\ relativePath = Join(ups \o down, Slash)
           /\ Walk(fromParts, Split(relativePath, "/")) = toParts

(***************************************************************************)
(* Claims about the link pass and the dead-link pass (SpecLink).           *)
(***************************************************************************)
Range(f) == {f[i] : i \in DOMAIN f}

\* A wiki link as the specification reads it: the link text is what precedes
\* the first "|", the linkpath what precedes the first "#" of the link text.
ClaimLinkText(content) == Trim(Split(content, "|")[1])

ClaimTarget(content) ==
    getFirstLinkpathDest(Trim(Split(ClaimLinkText(content), "#")[1]), sourcePath)

ClaimExported(content) ==
    The({target # None /\ target \in Range(lastFiles[1]) :
            target \in {ClaimTarget(content)}})

\* What stands between "](" and the closing ")" of an emitted Markdown link.
HrefOf(out) ==
    LET k == IndexOfFrom(out, <<"]","(">>, 1) IN SubSeq(out, k + 2, Len(out) - 1)

IsMarkdownLink(out) ==
    /\ StartsWithAt(out, 1, <<"[">>)
    /\ EndsWith(out, <<")">>)
    /\ IndexOfFrom(out, <<"]","(">>, 1) # 0

IsHyperlink(out) == IsMarkdownLink(out) /\ ~StartsWithAt(HrefOf(out), 1, BrokenScheme)

\* The marker [displayText](obsidian-broken:<encoded link text>).
IsBrokenMarkerFor(out, displayText, linkText) ==
    out = <<"[">> \o displayText \o <<"]", "(">> \o BrokenScheme
              \o encodeURIComponent(linkText) \o <<")">>

\* C2: for every [[...]] the link pass rewrites, a standard hyperlink is
\* emitted if and only if the linkpath resolves to a file that is in the list
\* given to the last buildPathMappings; in every other case the broken-
\* reference marker [displayText](obsidian-broken:<encoded link text>) is
\* emitted.
C2_HyperlinkIffResolvedAndExported ==
    stage = "linked" =>
        \A k \in 1..Len(emitted) :
            LET e == emitted[k]
            IN The({/\ IsHyperlink(e.out) <=> exported
                    /\ ~exported =>
                           IsBrokenMarkerFor(e.out, DisplayTextOf(e.content),
                                             ClaimLinkText(e.content)) :
                       exported \in {ClaimExported(e.content)}})

\* C2's case: the link pass has run on a document with a link to an exported
\* note and a link to a note that exists but is not exported.
C2_Witness ==
    /\ stage = "linked"
    /\ \E k \in 1..Len(emitted) : IsHyperlink(emitted[k].out)
    /\ \E k \in 1..Len(emitted) :
          /\ ClaimTarget(emitted[k].content) # None
          /\ IsBrokenMarkerFor(emitted[k].out, DisplayTextOf(emitted[k].content),
                               ClaimLinkText(emitted[k].content))

\* C3 - as claimed: for a link that resolves to an exported target, the href
\* is the relative path from the source document's SLUGGED path to the
\* target's slugged path with .md replaced by .html, with "#" and the
\* slugified subpath appended exactly when a subpath was given.
C3_HrefFromSluggedSource ==
    stage \in {"linked", "rendered", "styled", "restyled"} =>
        \A k \in 1..Len(emitted) :
            LET e == emitted[k]
                t == linkResolver[1]
                hashParts == Split(ClaimLinkText(e.content), "#")
                fragment == IF Len(hashParts) >= 2 /\ Trim(hashParts[2]) # <<>>
                            THEN <<"#">> \o slug(Trim(hashParts[2]))
                            ELSE <<>>
            IN ClaimExported(e.content) =>
                   HrefOf(e.out) =
                       getRelativePath(getSluggedPath(t, sourcePath),
                                       MdToHtml(getSluggedPath(t, ClaimTarget(e.content)))
                                           \o fragment)

\* The document neither holds the private scheme itself nor a code block,
\* and none of its wiki links holds a "[".
PlainDocument ==
    /\ ~Includes(markdownContent, BrokenScheme)
    /\ ~Includes(markdownContent, Fence)
    /\ \A k \in 1..Len(emitted) : ~Includes(emitted[k].content, <<"[">>)

\* C4 - as claimed: every broken-reference marker the link pass emits is
\* consumed by processDeadLinksInHtml after rendering, so that "obsidian-
\* broken:" never appears in the final HTML of a document. Stated for the
\* documents that neither hold the scheme to begin with nor a code block.
C4_NoSchemeInFinalHtml ==
    (stage = "styled" /\ PlainDocument) =>
        ~Includes(processedHtml, BrokenScheme)

\* The code blocks of a document: the text from its 1st fence to its 2nd,
\* from its 3rd to its 4th, and so on.
RECURSIVE CodeBlocksFrom(_, _)
CodeBlocksFrom(s, i) ==
    LET a == IndexOfFrom(s, Fence, i)
        b == IndexOfFrom(s, Fence, a + 3)
    IN IF a = 0 \/ b = 0 THEN {} ELSE {SubSeq(s, a, b + 2)} \cup CodeBlocksFrom(s, b + 3)

\* C5 - as claimed: wiki-link and embed syntax inside a code block of the
\* source Markdown is left unchanged by processLinksInMarkdown.
C5_CodeBlocksUntouched ==
    stage \in {"linked", "rendered", "styled", "restyled"} =>
        \A c \in CodeBlocksFrom(markdownContent, 1) : Includes(processedMarkdown, c)

DeadSpan(linkText, displayText) ==
    <<"<","s","p","a","n"," ","c","l","a","s","s","=","\"","d","e","a","d","-","l","i","n","k","\""," ","t","i","t","l","e","=","\"","B","r","o","k","e","n"," ","l","i","n","k",":"," ">> \o linkText \o <<"\"",">">>
    \o displayText \o <<"<","/","s","p","a","n",">">>

\* C6 - as claimed: for a broken-link marker passed through rendering and
\* processDeadLinksInHtml, the span's title is exactly the original link text
\* (decode(encode(linkText)) = linkText) and its content the displayText.
\* Stated for the documents without code blocks and without nested brackets.
C6_TitleIsOriginalLinkText ==
    (stage = "styled" /\ PlainDocument) =>
        \A k \in 1..Len(emitted) :
            LET e == emitted[k]
                linkText == ClaimLinkText(e.content)
            IN ~ClaimExported(e.content) =>
                   /\ decodeURIComponent(encodeURIComponent(linkText)) = linkText
                   /\ Includes(processedHtml, DeadSpan(linkText, DisplayTextOf(e.content)))

\* s without its regions, a region running from an occurrence of open to the
\* end of the next occurrence of close.
RECURSIVE WithoutRegions(_, _, _, _)
WithoutRegions(s, open, close, i) ==
    LET a == IndexOfFrom(s, open, i)
        b == IndexOfFrom(s, close, a + Len(open))
    IN IF a = 0 \/ b = 0 THEN SubSeq(s, i, Len(s))
       ELSE SubSeq(s, i, a - 1) \o WithoutRegions(s, open, close, b + Len(close))

\* How an anchor begins whose href uses the private scheme.
BrokenAnchorOpen == <<"<","a"," ","h","r","e","f","=","\"","o","b","s","i","d","i","a","n","-","b","r","o","k","e","n",":">>

\* C7 - as claimed: processDeadLinksInHtml leaves unchanged all of the HTML
\* that is not an anchor whose href uses the obsidian-broken: scheme: the
\* output without its dead-link spans is the input without its broken
\* anchors, so that every anchor with another href is in the output exactly
\* as in the input.
C7_OrdinaryHtmlUnchanged ==
    (stage \in {"styled", "restyled"} /\ processedHtml # URIError) =>
        WithoutRegions(processedHtml, <<"<","s","p","a","n"," ","c","l","a","s","s","=","\"","d","e","a","d","-","l","i","n","k","\"">>, <<"<","/","s","p","a","n",">">>, 1)
            = WithoutRegions(renderedHtml, BrokenAnchorOpen, <<"<","/","a",">">>, 1)

\* C8: on a document whose content does not hold the private scheme string,
\* processDeadLinksInHtml applied twice to the rendered HTML gives what it
\* gives applied once.
C8_DeadLinksIdempotent ==
    (stage = "restyled" /\ ~Includes(markdownContent, BrokenScheme)) =>
        restyledHtml = processedHtml

\* C8's case: the second pass has run on HTML in which the first replaced a
\* broken anchor.
C8_Witness ==
    /\ stage = "restyled"
    /\ ~Includes(markdownContent, BrokenScheme)
    /\ Includes(renderedHtml, BrokenAnchorOpen)
    /\ Includes(processedHtml, <<"<","s","p","a","n"," ","c","l","a","s","s","=","\"","d","e","a","d","-","l","i","n","k","\"">>)

(***************************************************************************)
(* Claims about the Path Mapping Table (SpecTable).                        *)
(***************************************************************************)
\* C10: after any sequence of buildPathMappings calls the table reflects only
\* the last one: the exported set is exactly the paths of the last list, the
\* keys of the path-to-slug map are the exported set, every value of the
\* path-to-slug map is a key of the slug-to-path map, and nothing of an
\* earlier build remains in any of the three.
C10_TableReflectsLastBuild ==
    LET t == linkResolver[1]
        last == Range(lastFiles[1])
    IN /\ t.exportedFiles = last
       /\ DOMAIN t.pathToSlugMap = t.exportedFiles
       /\ \A p \in DOMAIN t.pathToSlugMap : t.pathToSlugMap[p] \in DOMAIN t.slugToPathMap
       /\ \A p \in last : t.pathToSlugMap[p] = createSluggedPath(p)
       /\ DOMAIN t.slugToPathMap = {createSluggedPath(p) : p \in last}
       /\ \A sl \in DOMAIN t.slugToPathMap : t.slugToPathMap[sl] \in last
       /\ \A p \in everBuilt[1] \ last :
              p \notin t.exportedFiles /\ p \notin DOMAIN t.pathToSlugMap

\* C10's case: a second build, with a list that lacks a path of the first.
C10_Witness ==
    /\ builds[1] = 2
    /\ everBuilt[1] \ Range(lastFiles[1]) # {}
    /\ linkResolver[1].exportedFiles = Range(lastFiles[1])

\* C11: round trip of the mapping table: for every path p of the list given
\* to the last buildPathMappings, the slugged path of p is a key of the
\* slug-to-path map, and the path filed under it has the same slugged path
\* as p, also when several paths of the list have the same slugged path (the
\* inverse map then holds the last of them).
C11_SlugRoundTrip ==
    LET t == linkResolver[1]
    IN \A i \in 1..Len(lastFiles[1]) :
           LET p == lastFiles[1][i]
               sp == getSluggedPath(t, p)
           IN /\ sp \in DOMAIN t.slugToPathMap
              /\ getSluggedPath(t, t.slugToPathMap[sp]) = sp
              /\ (\A j \in (i + 1)..Len(lastFiles[1]) :
                      createSluggedPath(lastFiles[1][j]) # sp)
                     => t.slugToPathMap[sp] = p

\* C11's case: the last list holds two paths in different directories with
\* one slugged path, and the inverse map holds the later of the two.
C11_Witness ==
    /\ builds[1] > 0
    /\ \E i, j \in 1..Len(lastFiles[1]) :
           /\ i < j
           /\ FileDir(lastFiles[1][i]) # <<>>
           /\ createSluggedPath(lastFiles[1][i]) = createSluggedPath(lastFiles[1][j])
           /\ linkResolver[1].slugToPathMap[createSluggedPath(lastFiles[1][i])] # lastFiles[1][i]

(***************************************************************************)
(* Further claims about one document's passes (SpecLink).                  *)
(***************************************************************************)
\* The link pass has emitted the broken-reference marker for this [[...]].
IsBrokenMarker(out) == IsMarkdownLink(out) /\ StartsWithAt(HrefOf(out), 1, BrokenScheme)

\* C23: an unresolvable reference is never an error: for every document,
\* with links or embeds that are unresolved or excluded from the export and
\* whatever characters their link text holds, the link pass, the embed pass
\* and the dead-link pass after them complete without raising: the encoded
\* link text of every marker decodes again, and the dead-link pass yields
\* HTML and not the error of decodeURIComponent.
C23_UnresolvedNeverRaises ==
    /\ stage = "linked" =>
           \A k \in 1..Len(emitted) :
               IsBrokenMarker(emitted[k].out) =>
                   decodeURIComponent(encodeURIComponent(ClaimLinkText(emitted[k].content))) # URIError
    /\ stage \in {"styled", "restyled"} => processedHtml # URIError
    /\ stage = "restyled" => restyledHtml # URIError

\* C23's case: the dead-link pass has run on a document with an unresolved
\* link whose link text holds "%" and an embed of a file that is not in the
\* vault.
C23_Witness ==
    /\ stage = "styled"
    /\ Includes(markdownContent, <<"!","[","[","q",".","p","n","g","]","]">>)
    /\ \E k \in 1..Len(emitted) :
           /\ IsBrokenMarker(emitted[k].out)
           /\ Includes(emitted[k].content, <<"%">>)

\* C25 - as claimed: the embed pass runs before the plain-link pass and both
\* before rendering: the link pass sees no embed left in the text, and every
\* ![[...]] of the document stands in the link pass's result as what the
\* embed pass made of it (a media tag or a 'media not found' span), so that
\* no part of it was rewritten into a hyperlink or a broken-link marker.
C25_EmbedsBeforeLinks ==
    stage \in {"linked", "rendered", "styled", "restyled"} =>
        /\ EmbedMatches(processMediaEmbedsInMarkdown(markdownContent, sourcePath), 1) = <<>>
        /\ \A k \in 1..Len(EmbedMatches(markdownContent, 1)) :
               Includes(processedMarkdown,
                        EmbedReplacement(EmbedMatches(markdownContent, 1)[k].content, sourcePath))

\* What follows the first occurrence of the character c in s; None when s
\* does not hold c.
AfterFirst(s, c) ==
    IF FindChar(s, c, 1) > Len(s) THEN None ELSE SubSeq(s, FindChar(s, c, 1) + 1, Len(s))

\* What precedes the first occurrence of the character c in s.
BeforeFirst(s, c) == SubSeq(s, 1, FindChar(s, c, 1) - 1)

\* The display text of a wiki link as claimed: everything after the first
\* "|" when there is an alias, and the part before the first "#" of the
\* remaining text when there is none.
ClaimDisplayText(content) ==
    IF AfterFirst(content, "|") # None /\ Trim(AfterFirst(content, "|")) # <<>>
    THEN Trim(AfterFirst(content, "|"))
    ELSE BeforeFirst(Trim(BeforeFirst(content, "|")), "#")

\* The subpath as claimed: everything after the first "#" of the text that
\* precedes the first "|".
ClaimSubpath(content) == AfterFirst(Trim(BeforeFirst(content, "|")), "#")

\* C26 - as claimed: a wiki link's content is split at the first "|" only,
\* everything after it being the display text, and the remainder at the first
\* "#" only, everything after it being the subpath; without an alias the
\* display text is the part of the remaining text before the "#". Every
\* emitted link therefore shows the claimed display text, and a hyperlink to a
\* heading ends in "#" and the slug of the claimed subpath.
C26_SplitAtFirstBarAndHash ==
    \A k \in 1..Len(emitted) :
        LET content == emitted[k].content
            out == emitted[k].out
        IN /\ StartsWithAt(out, 1, <<"[">> \o ClaimDisplayText(content) \o <<"]", "(">>)
           /\ (IsHyperlink(out) /\ ClaimSubpath(content) # None /\ Trim(ClaimSubpath(content)) # <<>>) =>
                  EndsWith(out, <<"#">> \o slug(Trim(ClaimSubpath(content))) \o <<")">>)

(***************************************************************************)
(* The vault the export runs on, and what the export service takes from    *)
(* its libraries: micromatch, Handlebars, path and fs.                     *)
(***************************************************************************)
\* app.vault.getMarkdownFiles(): the notes, in the vault's order.
getMarkdownFiles ==
    <<<<"N",".","m","d">>, <<"M",".","m","d">>, <<"D","/","T",".","m","d">>, <<"s",".","m","d">>, <<"D","/","s",".","m","d">>, <<"D","/","E","/","s",".","m","d">>, <<"t","p","l",".","m","d">>>>

\* app.vault.read(file).
VaultContent(path) ==
    CASE path = <<"N",".","m","d">> -> <<"[","[","M","]","]"," ","!","[","[","p",".","p","n","g","]","]">>
      [] path = <<"M",".","m","d">> -> <<"[","[","N","]","]">>
      [] path = <<"D","/","T",".","m","d">> -> <<"!","[","[","v",".","m","p","4","|","4","0","]","]","\n","-","-","-","\n","!","[","[","b",".","j","p","g","]","]">>
      [] path = <<"s",".","m","d">> -> <<"[","[","Z","]","]">>
      [] path = <<"D","/","s",".","m","d">> -> <<"[","[","D","/","T","#","H","]","]">>
      [] path = <<"D","/","E","/","s",".","m","d">> -> <<"[","[","N","|","x","]","]"," ","!","[","[","p",".","p","n","g","]","]","\n","-","-","-","\n","[","y","]","(","o","b","s","i","d","i","a","n","-","b","r","o","k","e","n",":","%","F","F",")">>
      [] path = <<"t","p","l",".","m","d">> -> <<"<","h","1",">","{","{","n","o","t","e",".","t","i","t","l","e","}","}","<","/","h","1",">","{","{","{","n","o","t","e",".","c","o","n","t","e","n","t","}","}","}">>
      [] OTHER -> <<>>

\* app.vault.readBinary(file).
VaultBinary(path) == <<"<binary>">> \o path

InSeq(seq, x) == \E i \in 1..Len(seq) : seq[i] = x

\* path.join of a directory and a name.
join(dir, name) == dir \o Slash \o name

\* One segment of a glob against one segment of a path: "*" stands for any
\* run of characters, and matches no leading ".".
RECURSIVE SegMatchFrom(_, _, _, _)
SegMatchFrom(pat, i, seg, j) ==
    IF i > Len(pat) THEN j > Len(seg)
    ELSE IF pat[i] = "*"
         THEN \E n \in j..(Len(seg) + 1) : SegMatchFrom(pat, i + 1, seg, n)
         ELSE j <= Len(seg) /\ pat[i] = seg[j] /\ SegMatchFrom(pat, i + 1, seg, j + 1)

SegMatch(pat, seg) ==
    /\ (seg # <<>> /\ seg[1] = ".") => (pat # <<>> /\ pat[1] = ".")
    /\ SegMatchFrom(pat, 1, seg, 1)

\* The segments of a glob against the segments of a path: "**" stands for
\* any number of segments.
RECURSIVE GlobMatch(_, _)
GlobMatch(pats, segs) ==
    IF pats = <<>> THEN segs = <<>>
    ELSE IF Head(pats) = <<"*","*">>
         THEN \/ GlobMatch(Tail(pats), segs)
              \/ segs # <<>> /\ Head(segs)[1] # "." /\ GlobMatch(pats, Tail(segs))
         ELSE /\ segs # <<>>
              /\ SegMatch(Head(pats), Head(segs))
              /\ GlobMatch(Tail(pats), Tail(segs))

\* micromatch.isMatch(path, patterns).
isMatch(path, patterns) ==
    \E i \in 1..Len(patterns) : GlobMatch(Split(patterns[i], "/"), Split(path, "/"))

\* Handlebars' escapeExpression, as {{...}} applies it.
EscapeChar(c) ==
    CASE c = "&" -> <<"&","a","m","p",";">>
      [] c = "<" -> <<"&","l","t",";">>
      [] c = ">" -> <<"&","g","t",";">>
      [] c = "\"" -> <<"&","q","u","o","t",";">>
      [] c = "'" -> <<"&","#","x","2","7",";">>
      [] c = "=" -> <<"&","#","x","3","D",";">>
      [] OTHER -> <<c>>

escapeExpression(s) == Cat([i \in 1..Len(s) |-> EscapeChar(s[i])])

\* Handlebars.compile(templateContent)(noteData) for the two expressions of
\* the default template: {{{note.content}}} is the content as it is,
\* {{note.title}} the title escaped; what is put in is not scanned again.
RECURSIVE RenderTemplateFrom(_, _, _, _)
RenderTemplateFrom(tpl, i, title, content) ==
    LET j == IndexOfFrom(tpl, <<"{","{">>, i)
        text == SubSeq(tpl, i, j - 1)
    IN IF j = 0 THEN SubSeq(tpl, i, Len(tpl))
       ELSE IF StartsWithAt(tpl, j, <<"{","{","{","n","o","t","e",".","c","o","n","t","e","n","t","}","}","}">>)
            THEN text \o content \o RenderTemplateFrom(tpl, j + 18, title, content)
       ELSE IF StartsWithAt(tpl, j, <<"{","{","n","o","t","e",".","t","i","t","l","e","}","}">>)
            THEN text \o escapeExpression(title)
                 \o RenderTemplateFrom(tpl, j + 14, title, content)
       ELSE text \o <<"{","{">> \o RenderTemplateFrom(tpl, j + 2, title, content)

renderTemplate(templateContent, title, content) ==
    RenderTemplateFrom(templateContent, 1, title, content)

(***************************************************************************)
(* HtmlExportService: src/unnamed/part_001.                                *)
(***************************************************************************)
\* The non-empty trimmed lines of the include patterns.
PatternLines(includePatterns) ==
    LET lines == Split(includePatterns, "\n")
    IN FilterNonEmpty([i \in 1..Len(lines) |-> Trim(lines[i])])

\* filterFilesByGlob. The content filter (onlyIncludeNotesContaining) is
\* empty in every initial state, so that the reads of its loop never happen.
filterFilesByGlob(files) ==
    IF Trim(settings.includePatterns) = <<>> THEN files
    ELSE LET Matches(path) == isMatch(path, PatternLines(settings.includePatterns))
         IN SelectSeq(files, Matches)

\* The index page is a file of the vault that the filter left out.
IndexPageIsExtra(filteredFiles) ==
    /\ settings.indexPage # <<>>
    /\ settings.indexPage \in VaultFiles
    /\ ~InSeq(filteredFiles, settings.indexPage)

AssetsDir == <<"a","s","s","e","t","s">>

\* A test for stale files that compares the name's ending as it is written.
IsStaleCaseSensitive(path, exportedHtmlPaths) ==
    LET root == Split(settings.exportPath, "/")
        segs == Split(path, "/")
        dirs == SubSeq(segs, Len(root) + 1, Len(segs) - 1)
    IN /\ Len(segs) > Len(root)
       /\ SubSeq(segs, 1, Len(root)) = root
       /\ ~InSeq(dirs, AssetsDir)
       /\ EndsWith(segs[Len(segs)], DotHtml)
       /\ path \notin exportedHtmlPaths

\* removeStaleHtmlFiles: every .html file under the export path, outside any
\* directory named assets, that this run did not write is deleted.
IsStale(path, exportedHtmlPaths) ==
    LET root == Split(settings.exportPath, "/")
        segs == Split(path, "/")
        dirs == SubSeq(segs, Len(root) + 1, Len(segs) - 1)
    IN /\ Len(segs) > Len(root)
       /\ SubSeq(segs, 1, Len(root)) = root
       /\ ~InSeq(dirs, AssetsDir)
       /\ EndsWith(ToLowerCase(segs[Len(segs)]), DotHtml)
       /\ path \notin exportedHtmlPaths

removeStaleHtmlFiles(fs, exportedHtmlPaths) ==
    [p \in {q \in DOMAIN fs : ~IsStale(q, exportedHtmlPaths)} |-> fs[p]]

\* getAllMediaReferences: the media files the embeds of a document resolve
\* to, each once, in the order of their first embed.
RECURSIVE MediaReferencesFrom(_, _, _, _)
MediaReferencesFrom(ms, k, source, mediaFiles) ==
    IF k > Len(ms) THEN mediaFiles
    ELSE LET targetPath == Trim(Split(ms[k].content, "|")[1])
             resolved == resolveMediaPath(targetPath, source)
         IN MediaReferencesFrom(ms, k + 1, source,
                IF resolved # NoMedia /\ ~InSeq(mediaFiles, resolved.file)
                THEN Append(mediaFiles, resolved.file)
                ELSE mediaFiles)

\* The resolved file of every embed, one entry per embed.
RECURSIVE ResolvedEmbedsFrom(_, _, _)
ResolvedEmbedsFrom(ms, k, source) ==
    IF k > Len(ms) THEN <<>>
    ELSE LET resolved == resolveMediaPath(Trim(Split(ms[k].content, "|")[1]), source)
         IN (IF resolved # NoMedia THEN <<resolved.file>> ELSE <<>>)
                \o ResolvedEmbedsFrom(ms, k + 1, source)

\* getAllMediaReferences without the test for an entry of the same path.
AllResolvedEmbeds(markdown, source) == ResolvedEmbedsFrom(EmbedMatches(markdown, 1), 1, source)

\* getAllMediaReferences that keeps the images only.
ImageReferencesOnly(markdown, source) ==
    SelectSeq(MediaReferencesFrom(EmbedMatches(markdown, 1), 1, source, <<>>),
              LAMBDA f : HasExtension(f, imageExtensions))

getAllMediaReferences(markdown, source) ==
    MediaReferencesFrom(EmbedMatches(markdown, 1), 1, source, <<>>)

\* Set.add of each of files, in order.
RECURSIVE AddAll(_, _)
AddAll(all, files) ==
    IF files = <<>> THEN all
    ELSE AddAll(IF InSeq(all, Head(files)) THEN all ELSE Append(all, Head(files)),
                Tail(files))

(***************************************************************************)
(* HtmlExportService: the 'exclude last horizontal rule' option.           *)
(***************************************************************************)
\* content.split(/\r?\n/): a "\r" before a separator belongs to the separator.
SplitLines(content) ==
    The({[i \in 1..Len(ps) |->
             IF i < Len(ps) /\ ps[i] # <<>> /\ ps[i][Len(ps[i])] = "\r"
             THEN SubSeq(ps[i], 1, Len(ps[i]) - 1)
             ELSE ps[i]] :
            ps \in {Split(content, "\n")}})

\* The loop of findLastHorizontalRule from line i on (lines counted from 1);
\* last is lastHrLineIndex + 1, 0 standing for the -1 of the code.
RECURSIVE LastHrLineFrom(_, _, _, _)
LastHrLineFrom(lines, i, inCodeBlock, last) ==
    IF i > Len(lines) THEN last
    ELSE The({IF StartsWithAt(line, 1, Fence) \/ StartsWithAt(line, 1, <<"~","~","~">>)
              THEN LastHrLineFrom(lines, i + 1, ~inCodeBlock, last)
              ELSE IF inCodeBlock THEN LastHrLineFrom(lines, i + 1, inCodeBlock, last)
              ELSE IF line = <<"-","-","-">> THEN LastHrLineFrom(lines, i + 1, inCodeBlock, i)
              ELSE LastHrLineFrom(lines, i + 1, inCodeBlock, last) :
                 line \in {Trim(lines[i])}})

\* charIndex after the first n lines: each line's length + 1.
RECURSIVE CharIndexAfter(_, _)
CharIndexAfter(lines, n) ==
    IF n = 0 THEN 0 ELSE CharIndexAfter(lines, n - 1) + Len(lines[n]) + 1

\* The index (from 0) of the start of the last rule's line, or -1.
findLastHorizontalRule(content) ==
    The({The({IF last = 0 THEN -1 ELSE CharIndexAfter(lines, last - 1) :
                 last \in {LastHrLineFrom(lines, 1, FALSE, 0)}}) :
            lines \in {SplitLines(content)}})

\* The length of what \r?\n matches at i; 0 when it does not match.
NewlineAt(s, i) ==
    IF StartsWithAt(s, i, <<"\n">>) THEN 1
    ELSE IF StartsWithAt(s, i, <<"\r", "\n">>) THEN 2
    ELSE 0

\* The length of what \r?\n---\r?\n matches at i; 0 when it does not match.
FrontmatterCloseAt(s, i) ==
    The({IF a = 0 \/ ~StartsWithAt(s, i + a, <<"-","-","-">>) THEN 0
         ELSE The({IF b = 0 THEN 0 ELSE a + 3 + b : b \in {NewlineAt(s, i + a + 3)}}) :
            a \in {NewlineAt(s, i)}})

\* frontmatterMatch[0].length for /^---\r?\n([\s\S]*?)\r?\n---\r?\n/; 0 when
\* there is no match. The group is lazy: the first closing line ends it.
FrontmatterLength(content) ==
    The({IF open = 0 THEN 0
         ELSE The({IF at = {} THEN 0
                   ELSE Min(at) + FrontmatterCloseAt(content, Min(at)) - 1 :
                      at \in {{j \in (4 + open)..Len(content) :
                                  FrontmatterCloseAt(content, j) > 0}}}) :
            open \in {IF StartsWithAt(content, 1, <<"-","-","-">>) THEN NewlineAt(content, 4) ELSE 0}})

processLastHorizontalRuleExclusion(content) ==
    The({The({frontmatter
              \o (IF lastHrIndex # -1 THEN TrimEnd(SubSeq(bodyContent, 1, lastHrIndex))
                  ELSE bodyContent) :
                 lastHrIndex \in {findLastHorizontalRule(bodyContent)}}) :
            frontmatter \in {SubSeq(content, 1, FrontmatterLength(content))},
            bodyContent \in {SubSeq(content, FrontmatterLength(content) + 1, Len(content))}})


(***************************************************************************)
(* SpecEmbed: one text through processMediaEmbedsInMarkdown and through    *)
(* getAllMediaReferences.                                                  *)
(***************************************************************************)
\* What the callback of processMediaEmbedsInMarkdown computes for each
\* ![[...]] of the text: the trimmed parts, the parsed parameters, the
\* resolved media file, and the replacement.
EmbedCalls(markdown, source) ==
    The({[k \in 1..Len(ms) |->
             The({[content |-> ms[k].content,
                   targetPath |-> parts[1],
                   params |-> Tail(parts),
                   parsed |-> parseEmbedParameters(Tail(parts)),
                   resolved |-> resolveMediaPath(parts[1], source),
                   out |-> EmbedReplacement(ms[k].content, source)] :
                     parts \in {TrimAll(Split(ms[k].content, "|"))}})] :
            ms \in {EmbedMatches(markdown, 1)}})

\* Written targets: the image by name, in capitals, by path and with blanks
\* around it; an image whose extension is in capitals; a video; a file with
\* the extension ogv; a text file; and two names that no file of the vault has.
EmbedTargets ==
    {<<"p",".","p","n","g">>, <<"P",".","P","N","G">>, <<"i","m","g","/","p",".","p","n","g">>, <<" ","p",".","p","n","g"," ">>, <<"b",".","j","p","g">>, <<"v",".","m","p","4">>, <<"c",".","o","g","v">>,
     <<"n",".","t","x","t">>, <<"q",".","p","n","g">>, <<"q",".","m","p","4">>}

EmbedParams == {<<>>, <<"A"," ","c","a","p","t","i","o","n">>, <<"3","0","0">>, <<" ","4","0"," ">>, <<"2"," ","c","a","t","s">>, <<"3","0","p","x">>, <<"0">>}

\* One embed with up to MaxParams parameters.
ParamEmbeds ==
    {<<"!","[","[">> \o Join(<<t>> \o ps, <<"|">>) \o <<"]","]">> :
        t \in EmbedTargets, ps \in SeqsUpTo(EmbedParams, MaxParams)}

ShortEmbeds ==
    {<<"!","[","[","p",".","p","n","g","]","]">>, <<"!","[","[","P",".","P","N","G","|","4","0","]","]">>, <<"!","[","[","i","m","g","/","p",".","p","n","g","|","x","]","]">>, <<"!","[","[","v",".","m","p","4","]","]">>, <<"!","[","[","V",".","m","p","4","|","9","]","]">>,
     <<"!","[","[","q",".","p","n","g","]","]">>, <<"!","[","[","n",".","t","x","t","]","]">>}

\* A text with one embed, or with up to MaxEmbeds short embeds.
EmbedDocuments ==
    {<<"a"," ">> \o e \o <<" ","b">> : e \in ParamEmbeds}
        \cup {Join(es, <<" ">>) : es \in SeqsUpTo(ShortEmbeds, MaxEmbeds) \ {<<>>}}

EmbedSources == {<<"s",".","m","d">>, <<"D","/","s",".","m","d">>}

InitEmbed ==
    /\ TablesIdle
    /\ RelIdle
    /\ SlugIdle
    /\ RunIdle
    /\ markdownContent \in EmbedDocuments
    /\ sourcePath \in EmbedSources
    /\ processedContent = None
    /\ stage = "read"
    /\ processedMarkdown = None
    /\ emitted = <<>>
    /\ renderedHtml = None
    /\ processedHtml = None
    /\ restyledHtml = None
    /\ embeds = <<>>
    /\ mediaReferences = None

ProcessMediaEmbedsInMarkdown ==
    /\ stage = "read"
    /\ processedMarkdown' = processMediaEmbedsInMarkdown(markdownContent, sourcePath)
    /\ embeds' = EmbedCalls(markdownContent, sourcePath)
    /\ stage' = "embedded"
    /\ UNCHANGED <<tableVars, relVars, slugVars, runVars, markdownContent, sourcePath, processedContent,
                   emitted, renderedHtml, processedHtml, restyledHtml, mediaReferences>>

GetAllMediaReferences ==
    /\ mediaReferences = None
    /\ mediaReferences' = getAllMediaReferences(markdownContent, sourcePath)
    /\ UNCHANGED <<tableVars, relVars, slugVars, runVars, docVars, embeds>>

NextEmbed ==
    \/ ProcessMediaEmbedsInMarkdown
    \/ GetAllMediaReferences

SpecEmbed == InitEmbed /\ [][NextEmbed]_vars

(***************************************************************************)
(* Claims about media embeds (SpecEmbed).                                  *)
(***************************************************************************)
\* A parameter written with decimal digits only.
IsDigits(param) == param # <<>> /\ \A i \in 1..Len(param) : param[i] \in DigitChars

\* A parameter that is a positive integer.
IsPositiveInteger(param) == IsDigits(param) /\ \E i \in 1..Len(param) : param[i] # "0"

\* A caption parameter: not empty and not numeric.
IsCaptionParam(param) == param # <<>> /\ ~IsDigits(param)

\* The replacement is an <img> or a <video> tag.
IsMediaTag(out) == StartsWithAt(out, 1, <<"<","i","m","g"," ">>) \/ StartsWithAt(out, 1, <<"<","v","i","d","e","o"," ">>)

\* C14 - as claimed: embed parameter classification is order-independent.
\* For an embed of a media file with one caption parameter and one width
\* parameter, in either order, the emitted tag is the tag emitted for the
\* same embed with the two parameters swapped; its alt (title, for a video)
\* is the caption and its width style has that many px.
C14_OrderIndependent ==
    \A k \in 1..Len(embeds) :
        LET e == embeds[k]
        IN (/\ Len(e.params) = 2
            /\ IsMediaTag(e.out)
            /\ \E i \in 1..2 : IsCaptionParam(e.params[i]) /\ IsPositiveInteger(e.params[3 - i]))
           => LET i == CHOOSE i \in 1..2 : IsCaptionParam(e.params[i])
                  caption == e.params[i]
                  width == e.params[3 - i]
              IN /\ e.out = EmbedReplacement(
                                Join(<<e.targetPath, e.params[2], e.params[1]>>, <<"|">>),
                                sourcePath)
                 /\ \/ Includes(e.out, <<"a","l","t","=","\"">> \o caption \o <<"\"">>)
                    \/ Includes(e.out, <<"t","i","t","l","e","=","\"">> \o caption \o <<"\"">>)
                 /\ Includes(e.out, <<"s","t","y","l","e","=","\"","w","i","d","t","h",":"," ">> \o width \o <<"p","x",";","\"">>)

\* C15 - as claimed: for every list of trailing embed parameters the width
\* is the last parameter that is a positive integer (absent if there is
\* none), and the caption is the last non-empty parameter that is not
\* numeric (empty if there is none); a parameter that is not numeric, such
\* as text that starts with digits, is never taken as the width.
C15_WidthAndCaptionAsClaimed ==
    \A k \in 1..Len(embeds) :
        LET e == embeds[k]
            widths == {i \in 1..Len(e.params) : IsPositiveInteger(e.params[i])}
            captions == {i \in 1..Len(e.params) : IsCaptionParam(e.params[i])}
        IN /\ IF widths = {} THEN e.parsed.width = NoWidth
              ELSE /\ e.parsed.width > 0
                   /\ NumberToString(e.parsed.width) = e.params[Max(widths)]
           /\ IF captions = {} THEN e.parsed.altText = <<>>
              ELSE e.parsed.altText = e.params[Max(captions)]

\* The image and video extensions as the claim lists them.
ClaimImageExtensions == {<<".","p","n","g">>, <<".","j","p","g">>, <<".","j","p","e","g">>, <<".","g","i","f">>, <<".","s","v","g">>, <<".","w","e","b","p">>, <<".","a","v","i","f">>}
ClaimVideoExtensions == {<<".","m","p","4">>, <<".","w","e","b","m">>, <<".","m","o","v">>, <<".","m","4","v">>, <<".","o","g","v">>, <<".","o","g","g">>}

ClaimedType(file) ==
    IF HasExtension(file, ClaimImageExtensions) THEN "image"
    ELSE IF HasExtension(file, ClaimVideoExtensions) THEN "video"
    ELSE "null"

\* C16 - as claimed: a resolved media file is classified by its filename
\* extension alone, without regard to case: image for png, jpg, jpeg, gif,
\* svg, webp and avif, video for mp4, webm, mov, m4v, ogv and ogg,
\* unrecognized for every other extension; the rewrite and
\* getAllMediaReferences classify alike.
C16_ClassifiedByExtension ==
    \A k \in 1..Len(embeds) :
        LET e == embeds[k]
            file == getFirstLinkpathDest(e.targetPath, sourcePath)
        IN file # None =>
               /\ e.resolved.type = ClaimedType(file)
               /\ ClaimedType(file) # "null" => e.resolved.file = file
               /\ mediaReferences # None =>
                      (file \in Range(mediaReferences) <=> ClaimedType(file) # "null")

\* The inert span for a written target.
MediaNotFoundSpan(targetPath) ==
    IF HasExtension(targetPath, videoExtensions)
    THEN <<"<","s","p","a","n"," ","c","l","a","s","s","=","\"","b","r","o","k","e","n","-","v","i","d","e","o","\""," ","t","i","t","l","e","=","\"","M","e","d","i","a"," ","n","o","t"," ","f","o","u","n","d",":"," ">> \o targetPath \o <<"\"",">">>
             \o VideoIcon \o <<" ">> \o targetPath \o <<"<","/","s","p","a","n",">">>
    ELSE <<"<","s","p","a","n"," ","c","l","a","s","s","=","\"","b","r","o","k","e","n","-","i","m","a","g","e","\""," ","t","i","t","l","e","=","\"","M","e","d","i","a"," ","n","o","t"," ","f","o","u","n","d",":"," ">> \o targetPath \o <<"\"",">">>
             \o ImageIcon \o <<" ">> \o targetPath \o <<"<","/","s","p","a","n",">">>

\* The written target resolves to a file with an image or video extension.
IsRecognisedMedia(targetPath, source) ==
    LET file == getFirstLinkpathDest(targetPath, source)
    IN file # None /\ HasExtension(file, imageExtensions \cup videoExtensions)

TaggedFiles == {embeds[k].resolved.file : k \in {j \in 1..Len(embeds) : IsMediaTag(embeds[j].out)}}

ExportPaths == {<<>>, <<"o","u","t">>}
TemplateNotes == {<<>>, <<"t","p","l",".","m","d">>, <<"g","o","n","e",".","m","d">>}
IndexPages == {<<>>, <<"M",".","m","d">>}
IncludePatterns == {<<"*","*","/","*",".","m","d">>, <<"N",".","m","d","\n"," ","D","/","s",".","m","d"," ","\n">>, <<" ">>}

\* What the export path holds from earlier exports.
OldFiles ==
    [p \in {<<"o","u","t","/","o","l","d",".","h","t","m","l">>, <<"o","u","t","/","a","s","s","e","t","s","/","a",".","h","t","m","l">>, <<"o","u","t","/","d","/","x",".","H","T","M","L">>, <<"o","u","t","/","n","o","t","e",".","t","x","t">>,
            <<"o","u","t","/","d","/","a","s","s","e","t","s","/","b",".","h","t","m","l">>, <<"o","u","t","e","r","/","z",".","h","t","m","l">>}
        |-> <<"o","l","d">>]

\* new Notice(text): what the user is shown; path is the file an error
\* message names and count the number the closing message gives.
Notice(text, path, count) == [text |-> text, path |-> path, count |-> count]

Notify(rec, text) == [rec EXCEPT !.notices = Append(@, Notice(text, <<>>, 0))]

InitRun ==
    /\ TablesIdle
    /\ RelIdle
    /\ SlugIdle
    /\ EmbedIdle
    /\ DocIdle
    /\ settings \in
           [exportPath : ExportPaths, includePatterns : IncludePatterns,
            indexPage : IndexPages, templateNote : TemplateNotes,
            onlyIncludeNotesContaining : {<<>>}, excludeLastHorizontalRule : BOOLEAN]
    /\ run = [r \in Runs |-> IdleRun]
    /\ outputFiles = OldFiles

\* The end of exportVault: removeStaleHtmlFiles and the closing notice.
Finish(r, rec, fs) ==
    /\ outputFiles' = removeStaleHtmlFiles(fs, rec.exportedHtmlPaths)
    /\ run' = [run EXCEPT ![r] =
                  [rec EXCEPT !.pc = "done",
                              !.notices = Append(@, Notice("HTML export completed!", <<>>,
                                                           rec.exportedCount))]]

\* The loop over filteredFiles without the index page after it.
ContinueWithoutIndex(r, rec, k, fs) ==
    IF k <= Len(rec.filteredFiles)
    THEN /\ run' = [run EXCEPT ![r] =
                       [rec EXCEPT !.pc = "fileRead", !.k = k, !.isIndex = FALSE,
                                   !.file = rec.filteredFiles[k],
                                   !.customFileName =
                                       (settings.indexPage # <<>>
                                        /\ rec.filteredFiles[k] = settings.indexPage)]]
         /\ outputFiles' = fs
    ELSE Finish(r, rec, fs)

\* The loop over filteredFiles at its k-th file, the index page after it
\* when the filter left it out, and the end of the run.
Continue(r, rec, k, fs) ==
    IF k <= Len(rec.filteredFiles)
    THEN /\ run' = [run EXCEPT ![r] =
                       [rec EXCEPT !.pc = "fileRead", !.k = k, !.isIndex = FALSE,
                                   !.file = rec.filteredFiles[k],
                                   !.customFileName =
                                       (settings.indexPage # <<>>
                                        /\ rec.filteredFiles[k] = settings.indexPage)]]
         /\ outputFiles' = fs
    ELSE IF IndexPageIsExtra(rec.filteredFiles)
    THEN /\ run' = [run EXCEPT ![r] =
                       [rec EXCEPT !.pc = "fileRead", !.k = k, !.isIndex = TRUE,
                                   !.file = settings.indexPage, !.customFileName = TRUE]]
         /\ outputFiles' = fs
    ELSE Finish(r, rec, fs)

\* exportVault without its check that the template setting names a file.
InvokeWithoutTemplateCheck(r) ==
    /\ run[r].pc = "idle"
    /\ \A q \in Runs : q < r => run[q].pc # "idle"
    /\ run' = [run EXCEPT ![r] =
          IF settings.exportPath = <<>>
          THEN [Notify(@, "Please set an export path in settings first")
                   EXCEPT !.pc = "done"]
          ELSE IF settings.templateNote = <<>>
          THEN [Notify(@, "Please select a template note in settings first")
                   EXCEPT !.pc = "done"]
          ELSE [Notify(@, "HTML export started...") EXCEPT !.pc = "templateRead"]]
    /\ UNCHANGED <<tableVars, relVars, slugVars, embedVars, docVars, settings, outputFiles>>

\* The command's callback: exportVault up to its await of the template.
InvokeExportCommand(r) ==
    /\ run[r].pc = "idle"
    /\ \A q \in Runs : q < r => run[q].pc # "idle"
    /\ run' = [run EXCEPT ![r] =
          IF settings.exportPath = <<>>
          THEN [Notify(@, "Please set an export path in settings first")
                   EXCEPT !.pc = "done"]
          ELSE IF settings.templateNote = <<>>
          THEN [Notify(@, "Please select a template note in settings first")
                   EXCEPT !.pc = "done"]
          ELSE IF settings.templateNote \notin VaultFiles
          THEN [Notify(Notify(@, "HTML export started..."),
                       "Template note not found. Please select a valid template.")
                   EXCEPT !.pc = "done"]
          ELSE [Notify(@, "HTML export started...") EXCEPT !.pc = "templateRead"]]
    /\ UNCHANGED <<tableVars, relVars, slugVars, embedVars, docVars, settings, outputFiles>>

\* After the template is read: the export list, buildPathMappings, and
\* copyMediaAssets up to its first read.
TemplateRead(r) ==
    /\ run[r].pc = "templateRead"
    /\ LET filteredFiles == filterFilesByGlob(getMarkdownFiles)
           allExportFiles ==
               filteredFiles \o (IF IndexPageIsExtra(filteredFiles)
                                 THEN <<settings.indexPage>> ELSE <<>>)
       IN IF allExportFiles = <<>>
          THEN /\ run' = [run EXCEPT ![r] =
                             [Notify(@, "No files to export") EXCEPT !.pc = "done"]]
               /\ UNCHANGED tableVars
          ELSE /\ BuildPathMappings(1, allExportFiles)
               /\ run' = [run EXCEPT ![r] =
                             [@ EXCEPT !.pc = "copyRead",
                                       !.templateContent = VaultContent(settings.templateNote),
                                       !.filteredFiles = filteredFiles,
                                       !.allExportFiles = allExportFiles,
                                       !.k = 1,
                                       !.built = builds[1] + 1]]
    /\ UNCHANGED <<relVars, slugVars, embedVars, docVars, settings, outputFiles>>

\* copyMediaAssets after the read of its k-th file.
CopyRead(r) ==
    /\ run[r].pc = "copyRead"
    /\ LET file == run[r].allExportFiles[run[r].k]
           mediaRefs == getAllMediaReferences(VaultContent(file), file)
           rec == [run[r] EXCEPT !.allMediaFiles = AddAll(@, mediaRefs)]
       IN IF rec.k < Len(rec.allExportFiles)
          THEN /\ run' = [run EXCEPT ![r] = [rec EXCEPT !.k = @ + 1]]
               /\ UNCHANGED outputFiles
          ELSE IF rec.allMediaFiles = <<>>
          THEN Continue(r, rec, 1, outputFiles)
          ELSE /\ run' = [run EXCEPT ![r] =
                             [rec EXCEPT !.pc = "copyBinary", !.k = 1,
                                         !.assetsDir = join(settings.exportPath, AssetsDir)]]
               /\ UNCHANGED outputFiles
    /\ UNCHANGED <<tableVars, relVars, slugVars, embedVars, docVars, settings>>

\* copyMediaAssets after the read of its k-th media file.
CopyBinary(r) ==
    /\ run[r].pc = "copyBinary"
    /\ LET rec == run[r]
           mediaFile == rec.allMediaFiles[rec.k]
           targetPath == join(rec.assetsDir, FileName(mediaFile))
           fs == MapSet(outputFiles, targetPath, VaultBinary(mediaFile))
       IN IF rec.k < Len(rec.allMediaFiles)
          THEN /\ run' = [run EXCEPT ![r] = [rec EXCEPT !.k = @ + 1]]
               /\ outputFiles' = fs
          ELSE Continue(r, rec, 1, fs)
    /\ UNCHANGED <<tableVars, relVars, slugVars, embedVars, docVars, settings>>

\* The file exportFileToHtml was called with.
CurrentFile(rec) == rec.file

\* exportFileToHtml after the read of the file, up to the renderer.
FileRead(r) ==
    /\ run[r].pc = "fileRead"
    /\ LET file == CurrentFile(run[r])
           linkInput ==
               IF settings.excludeLastHorizontalRule
               THEN processLastHorizontalRuleExclusion(VaultContent(file))
               ELSE VaultContent(file)
       IN run' = [run EXCEPT ![r] =
              [@ EXCEPT !.pc = "fileRender",
                        !.processedMarkdown =
                            processLinksInMarkdown(linkResolver[1], linkInput, file)]]
    /\ UNCHANGED <<tableVars, relVars, slugVars, embedVars, docVars, settings, outputFiles>>

\* exportFileToHtml whose error exportVault reports and then goes on with
\* the next file.
FileRenderSkipFailed(r) ==
    /\ run[r].pc = "fileRender"
    /\ LET rec == run[r]
           file == CurrentFile(rec)
           styledHtml == processDeadLinksInHtml(renderMarkdown(rec.processedMarkdown))
           htmlContent == renderTemplate(rec.templateContent, FileBasename(file), styledHtml)
           outputPath ==
               IF rec.customFileName THEN join(settings.exportPath, <<"i","n","d","e","x",".","h","t","m","l">>)
               ELSE join(settings.exportPath, MdToHtml(getSluggedPath(linkResolver[1], file)))
           done == [rec EXCEPT !.exportedHtmlPaths = @ \cup {outputPath},
                               !.exportedCount = @ + 1,
                               !.processedMarkdown = None]
           fs == MapSet(outputFiles, outputPath, htmlContent)
       IN IF styledHtml = URIError
          THEN Continue(r, [rec EXCEPT !.notices =
                                   Append(@, Notice("HTML export failed: Error exporting file",
                                                    file, 0))],
                        rec.k + 1, outputFiles)
          ELSE IF rec.isIndex THEN Finish(r, done, fs)
          ELSE Continue(r, done, rec.k + 1, fs)
    /\ UNCHANGED <<tableVars, relVars, slugVars, embedVars, docVars, settings>>

\* exportFileToHtml after the renderer: the dead-link pass, the template,
\* the write; then the next file, the index page or the end of the run.
FileRender(r) ==
    /\ run[r].pc = "fileRender"
    /\ LET rec == run[r]
           file == CurrentFile(rec)
           styledHtml == processDeadLinksInHtml(renderMarkdown(rec.processedMarkdown))
           htmlContent == renderTemplate(rec.templateContent, FileBasename(file), styledHtml)
           outputPath ==
               IF rec.customFileName THEN join(settings.exportPath, <<"i","n","d","e","x",".","h","t","m","l">>)
               ELSE join(settings.exportPath, MdToHtml(getSluggedPath(linkResolver[1], file)))
           done == [rec EXCEPT !.exportedHtmlPaths = @ \cup {outputPath},
                               !.exportedCount = @ + 1,
                               !.processedMarkdown = None]
           fs == MapSet(outputFiles, outputPath, htmlContent)
       IN IF styledHtml = URIError
          THEN /\ run' = [run EXCEPT ![r] =
                             [rec EXCEPT !.pc = "done",
                                         !.notices =
                                             Append(@, Notice("HTML export failed: Error exporting file",
                                                              file, 0))]]
               /\ UNCHANGED outputFiles
          ELSE IF rec.isIndex THEN Finish(r, done, fs)
          ELSE Continue(r, done, rec.k + 1, fs)
    /\ UNCHANGED <<tableVars, relVars, slugVars, embedVars, docVars, settings>>

NextRun ==
    \E r \in Runs :
        \/ InvokeExportCommand(r)
        \/ TemplateRead(r)
        \/ CopyRead(r)
        \/ CopyBinary(r)
        \/ FileRead(r)
        \/ FileRender(r)

SpecRun == InitRun /\ [][NextRun]_vars

(***************************************************************************)
(* SpecSettings: one invocation of the command while the settings tab is   *)
(* used. The callbacks of the tab assign to the settings object, which is  *)
(* the object the export service was constructed with, so that a run that  *)
(* is suspended at an await reads the new values when it goes on.          *)
(* saveSettings then constructs a new HtmlExportService for invocations to *)
(* come; the run in flight stays with the old one.                         *)
(***************************************************************************)
\* The button 'Select Note' of the index page setting, with the note chosen.
SelectIndexPage ==
    /\ \E selectedFile \in IndexPages \ {<<>>} :
           /\ settings.indexPage # selectedFile
           /\ settings' = [settings EXCEPT !.indexPage = selectedFile]
    /\ UNCHANGED <<tableVars, relVars, slugVars, embedVars, docVars, run, outputFiles>>

\* The button 'Clear' of the index page setting.
ClearIndexPage ==
    /\ settings.indexPage # <<>>
    /\ settings' = [settings EXCEPT !.indexPage = <<>>]
    /\ UNCHANGED <<tableVars, relVars, slugVars, embedVars, docVars, run, outputFiles>>

\* The text field of the export path: the path is changed to another folder.
ChangeExportPath ==
    /\ settings.exportPath = <<"o","u","t">>
    /\ settings' = [settings EXCEPT !.exportPath = <<"o","2">>]
    /\ UNCHANGED <<tableVars, relVars, slugVars, embedVars, docVars, run, outputFiles>>

NextSettings ==
    \/ InvokeExportCommand(1)
    \/ TemplateRead(1)
    \/ CopyRead(1)
    \/ CopyBinary(1)
    \/ FileRead(1)
    \/ FileRender(1)
    \/ SelectIndexPage
    \/ ClearIndexPage
    \/ ChangeExportPath

SpecSettings == InitRun /\ [][NextSettings]_vars

(***************************************************************************)
(* SpecRule: the start of exportFileToHtml on one document: the text read  *)
(* from the vault and the text handed on to link processing.               *)
(***************************************************************************)
\* Lines: text, text with a blank at its end, a rule, a rule with blanks
\* around it, the two code fences and the empty line.
RuleLines == {<<"a">>, <<"b"," ">>, <<"-","-","-">>, <<" ","-","-","-"," ">>, Fence, <<"~","~","~">>, <<>>}

LineEndings == {<<"\n">>, <<"\r", "\n">>}

\* Documents of at most MaxRuleLines lines, all with the same line ending,
\* with and without one after the last line.
RuleDocuments ==
    UNION {{Join(ls, eol) \o last : ls \in SeqsUpTo(RuleLines, MaxRuleLines),
                                     last \in {<<>>, eol}} : eol \in LineEndings}

InitRule ==
    /\ TablesIdle
    /\ RelIdle
    /\ SlugIdle
    /\ EmbedIdle
    /\ settings \in {[DEFAULT_SETTINGS EXCEPT !.excludeLastHorizontalRule = b] :
                        b \in BOOLEAN}
    /\ run = [r \in Runs |-> IdleRun]
    /\ outputFiles = EmptyMap
    /\ markdownContent \in RuleDocuments
    /\ sourcePath = <<"N",".","m","d">>
    /\ processedContent = None
    /\ stage = "read"
    /\ processedMarkdown = None
    /\ emitted = <<>>
    /\ renderedHtml = None
    /\ processedHtml = None
    /\ restyledHtml = None

ExcludeLastHorizontalRule ==
    /\ stage = "read"
    /\ processedContent' =
           IF settings.excludeLastHorizontalRule
           THEN processLastHorizontalRuleExclusion(markdownContent)
           ELSE markdownContent
    /\ stage' = "excluded"
    /\ UNCHANGED <<tableVars, relVars, slugVars, embedVars, runVars, markdownContent,
                   sourcePath, processedMarkdown, emitted, renderedHtml, processedHtml,
                   restyledHtml>>

NextRule == ExcludeLastHorizontalRule

SpecRule == InitRule /\ [][NextRule]_vars

\* Where the lines of a text start: at its first character and after every
\* line feed.
ClaimLineStarts(body) == {i \in 1..Len(body) : i = 1 \/ body[i - 1] = "\n"}

\* The line that starts at i, trimmed.
ClaimLineAt(body, i) ==
    The({Trim(SubSeq(body, i, IF ends = {} THEN Len(body) ELSE Min(ends) - 1)) :
            ends \in {{j \in i..Len(body) : body[j] = "\n"}}})

ClaimIsFence(line) == StartsWithAt(line, 1, Fence) \/ StartsWithAt(line, 1, <<"~","~","~">>)

\* Where the rules of a text start: its lines that are '---' after trimming
\* and have an even number of fence lines before them.
ClaimRuleStarts(body) ==
    The({{i \in starts :
             /\ ClaimLineAt(body, i) = <<"-","-","-">>
             /\ Cardinality({j \in starts : j < i /\ ClaimIsFence(ClaimLineAt(body, j))}) % 2 = 0} :
            starts \in {ClaimLineStarts(body)}})

\* The frontmatter, then the body before its last rule without the white
\* space at its end; the text itself when the body has no rule.
ClaimExcluded(content) ==
    The({The({IF rules = {} THEN content
              ELSE SubSeq(content, 1, n)
                   \o TrimEnd(SubSeq(content, n + 1, n + Max(rules) - 1)) :
                 rules \in {ClaimRuleStarts(SubSeq(content, n + 1, Len(content)))}}) :
            n \in {FrontmatterLength(content)}})

\* C30: with excludeLastHorizontalRule enabled, the text handed to link
\* processing is the leading frontmatter block followed by the body up to,
\* and without, the last line outside fenced code that is '---' after
\* trimming, with the white space at its end removed, and the text itself
\* when there is no such line, for line endings of "\n" and of "\r\n".
C30_BodyUpToLastRule ==
    (stage = "excluded" /\ settings.excludeLastHorizontalRule) =>
        processedContent = ClaimExcluded(markdownContent)

(***************************************************************************)
(* Claims about the export run (SpecRun).                                  *)
(***************************************************************************)
\* From its buildPathMappings to the end of its per-file phase.
InFreeze(r) == run[r].pc \in {"copyRead", "copyBinary", "fileRead", "fileRender"}

\* A document is being resolved or rendered.
InDocument(r) == run[r].pc \in {"fileRead", "fileRender"}

\* C9 - as claimed: build-then-freeze. From the buildPathMappings of a run
\* to the end of its per-file phase there is no other buildPathMappings on
\* the same LinkResolver, and no two documents are being resolved or
\* rendered at the same time, even when the command is invoked again while
\* a run is suspended at an await.
C9_BuildThenFreeze ==
    \A r \in Runs :
        InFreeze(r) =>
            /\ builds[1] = run[r].built
            /\ \A q \in Runs \ {r} : ~(InDocument(r) /\ InDocument(q))

\* A step of the per-file phase of some run: copyMediaAssets'
\* getAllMediaReferences, exportFileToHtml's processLinksInMarkdown (with
\* isFileExported and getSluggedPath) and processDeadLinksInHtml.
PerFileStep == \E r \in Runs : CopyRead(r) \/ CopyBinary(r) \/ FileRead(r) \/ FileRender(r)

\* C12: during the per-file phase the Path Mapping Table is read-only: no
\* step of the per-file phase changes the path-to-slug map, the slug-to-path
\* map or the exported set, and getSluggedPath of a vault path equals the
\* slug of that path whether or not the path is in the table.
C12_TableReadOnly ==
    /\ [](\A p \in VaultFiles :
             getSluggedPath(linkResolver[1], p) = createSluggedPath(p))
    /\ [][PerFileStep => linkResolver' = linkResolver]_vars

\* C12's case: a document is between its link pass and its write while the
\* table holds some notes of the vault and lacks others.
C12_Witness ==
    /\ \E r \in Runs : run[r].pc = "fileRender"
    /\ \E p, q \in NotePaths :
           /\ p \in DOMAIN linkResolver[1].pathToSlugMap
           /\ q \notin DOMAIN linkResolver[1].pathToSlugMap
           /\ createSluggedPath(q) # q

\* The values of the src attributes of an HTML text.
SrcValues(html) ==
    {SubSeq(html, i + 5, FindChar(html, "\"", i + 5) - 1) :
        i \in {j \in 1..Len(html) : StartsWithAt(html, j, <<"s","r","c","=","\"">>)}}

\* The names of the media files that the <img> and <video> tags of an HTML
\* text refer to.
MediaTagTargets(html) == {FileName(v) : v \in SrcValues(html)}

\* Where copyMediaAssets puts a media file.
AssetPath(mediaFile) == join(join(settings.exportPath, AssetsDir), FileName(mediaFile))

\* The run has ended with the closing notice.
Completed(r) ==
    /\ run[r].pc = "done"
    /\ run[r].notices # <<>>
    /\ run[r].notices[Len(run[r].notices)].text = "HTML export completed!"

\* C18: media is copied if referenced: for every <img>/<video> tag in a
\* document that a run has written, the media file the tag refers to is among
\* the files this run collected for copying and is in assets/<basename> under
\* the export root with the file's content, although no media file is in the
\* exported set; and a run writes every asset before its first document.
C18_MediaCopiedBeforeDocuments ==
    /\ [](\A r \in Runs : \A d \in run[r].exportedHtmlPaths :
             d \in DOMAIN outputFiles =>
                 \A name \in MediaTagTargets(outputFiles[d]) :
                     \E m \in MediaPaths :
                         /\ FileName(m) = name
                         /\ InSeq(run[r].allMediaFiles, m)
                         /\ ~isFileExported(linkResolver[1], m)
                         /\ AssetPath(m) \in DOMAIN outputFiles
                         /\ outputFiles[AssetPath(m)] = VaultBinary(m))
    /\ [][\A r \in Runs : CopyBinary(r) => run[r].exportedHtmlPaths = {}]_vars

\* C18's case: a run has ended after writing a document with a <video> tag
\* and a document with an <img> tag.
C18_Witness ==
    \E r \in Runs :
        /\ Completed(r)
        /\ \E d, e \in run[r].exportedHtmlPaths :
               /\ d \in DOMAIN outputFiles
               /\ e \in DOMAIN outputFiles
               /\ Includes(outputFiles[d], <<"<","v","i","d","e","o"," ">>)
               /\ Includes(outputFiles[e], <<"<","i","m","g"," ">>)
               /\ MediaTagTargets(outputFiles[d]) # {}

\* C19 - as claimed: only referenced media is copied. Every file that a run
\* which ended with the closing notice has written into assets/ is the
\* target of an <img> or <video> tag in the final HTML of at least one
\* document written by that run, also with the 'exclude last horizontal
\* rule' option.
C19_OnlyReferencedMediaCopied ==
    \A r \in Runs :
        Completed(r) =>
            \A k \in 1..Len(run[r].allMediaFiles) :
                /\ AssetPath(run[r].allMediaFiles[k]) \in DOMAIN outputFiles
                /\ \E d \in run[r].exportedHtmlPaths :
                       /\ d \in DOMAIN outputFiles
                       /\ FileName(run[r].allMediaFiles[k]) \in MediaTagTargets(outputFiles[d])

\* The required configuration is missing: no export path, no template
\* setting, or a template setting that names no file of the vault.
ConfigMissing ==
    \/ settings.exportPath = <<>>
    \/ settings.templateNote = <<>>
    \/ settings.templateNote \notin VaultFiles

\* The message exportVault shows for the configuration it rejects.
RejectionText ==
    IF settings.exportPath = <<>> THEN "Please set an export path in settings first"
    ELSE IF settings.templateNote = <<>> THEN "Please select a template note in settings first"
    ELSE "Template note not found. Please select a valid template."

\* C21: when the export path is empty, the template setting is empty or the
\* template note does not exist, exportVault reports to the user and returns
\* before any processing: an invocation ends at once with the message for
\* the missing setting as its last notice, no vault file is read (no run
\* gets to an await), buildPathMappings is not called, and the files under
\* the export path stay as they were (no asset copied, no document written,
\* no file deleted).
C21_RejectedBeforeProcessing ==
    ConfigMissing =>
        /\ \A r \in Runs :
               /\ run[r].pc \in {"idle", "done"}
               /\ run[r].pc = "done" =>
                      /\ run[r].notices # <<>>
                      /\ run[r].notices[Len(run[r].notices)].text = RejectionText
                      /\ [run[r] EXCEPT !.notices = <<>>, !.pc = "idle"] = IdleRun
        /\ builds[1] = 0
        /\ linkResolver[1] = EmptyTable
        /\ outputFiles = OldFiles

\* C21's case: an invocation has returned because the template setting names
\* a note that is not in the vault, the export path being set.
C21_Witness ==
    /\ settings.exportPath # <<>>
    /\ settings.templateNote # <<>>
    /\ settings.templateNote \notin VaultFiles
    /\ \E r \in Runs : run[r].pc = "done"

\* The path exportVault writes a file of the run's export list to: the index
\* page to index.html at the export root, any other file to its slugged path
\* with ".md" replaced by ".html".
ClaimOutputPath(file) ==
    IF settings.indexPage # <<>> /\ file = settings.indexPage
    THEN join(settings.exportPath, <<"i","n","d","e","x",".","h","t","m","l">>)
    ELSE join(settings.exportPath, MdToHtml(createSluggedPath(file)))

FailureText == "HTML export failed: Error exporting file"

\* exportVault has caught the error of a document of this run.
HasFailed(r) == \E i \in 1..Len(run[r].notices) : run[r].notices[i].text = FailureText

C24_EveryFileWrittenOnce ==
    /\ [](\A r \in Runs :
             Completed(r) =>
                 LET rec == run[r]
                     files == rec.allExportFiles
                 IN /\ rec.exportedHtmlPaths = {ClaimOutputPath(files[j]) : j \in 1..Len(files)}
                    /\ \A p \in rec.exportedHtmlPaths : p \in DOMAIN outputFiles
                    /\ rec.exportedCount = Len(files)
                    /\ rec.notices[Len(rec.notices)].count = Len(files)
                    /\ (settings.indexPage # <<>> /\ InSeq(files, settings.indexPage)) =>
                           /\ join(settings.exportPath, <<"i","n","d","e","x",".","h","t","m","l">>) \in rec.exportedHtmlPaths
                           /\ join(settings.exportPath, MdToHtml(createSluggedPath(settings.indexPage)))
                                  \notin DOMAIN outputFiles)
    /\ [][\A r \in Runs :
             (\/ run'[r].exportedHtmlPaths # run[r].exportedHtmlPaths
              \/ run'[r].exportedCount # run[r].exportedCount) =>
                 /\ run'[r].exportedCount = run[r].exportedCount + 1
                 /\ run'[r].exportedHtmlPaths =
                        run[r].exportedHtmlPaths \cup {ClaimOutputPath(CurrentFile(run[r]))}
                 /\ run[r].allExportFiles[run[r].exportedCount + 1] = CurrentFile(run[r])]_vars

\* C24's case: a run has completed whose export set holds a note in a
\* subdirectory and, after the filtered files, the index page.
C24_Witness ==
    \E r \in Runs :
        /\ Completed(r)
        /\ IndexPageIsExtra(run[r].filteredFiles)
        /\ \E j \in 1..Len(run[r].filteredFiles) : FileDir(run[r].filteredFiles[j]) # <<>>

\* The text exportFileToHtml hands to the link pass for a file.
LinkPassInput(file) ==
    IF settings.excludeLastHorizontalRule
    THEN processLastHorizontalRuleExclusion(VaultContent(file))
    ELSE VaultContent(file)

\* The file a wiki link of a document points to.
LinkTargetIn(content, source) ==
    getFirstLinkpathDest(Trim(BeforeFirst(ClaimLinkText(content), "#")), source)

\* The hyperlink resolves, from the directory of the path the document is
\* written to, to the path the target is written to.
HrefArrives(out, content, source) ==
    Walk(DirOf(ClaimOutputPath(source)), Split(BeforeFirst(HrefOf(out), "#"), "/"))
        = Split(ClaimOutputPath(LinkTargetIn(content, source)), "/")

\* C27 - as claimed: for every hyperlink that the link pass emits into a
\* document written by an export run, resolving the href without its
\* fragment against the directory of the path where the document is written
\* gives the path where the link's target is written in the same run, also
\* for documents in nested directories, for directories that slugging
\* renames and for the document exported as index.html.
C27_HrefArrivesAtWrittenTarget ==
    \A r \in Runs :
        Completed(r) =>
            \A j \in 1..Len(run[r].allExportFiles) :
                LET source == run[r].allExportFiles[j]
                    links == EmittedLinks(linkResolver[1], LinkPassInput(source), source)
                IN \A k \in 1..Len(links) :
                       IsHyperlink(links[k].out) =>
                           HrefArrives(links[k].out, links[k].content, source)

\* A stale file as claimed: under the export path, its name ending in .html
\* in any case, in no directory named assets, and not written by the run.
ClaimStale(path, written) ==
    /\ StartsWithAt(path, 1, settings.exportPath \o Slash)
    /\ EndsWith(ToLowerCase(FileName(path)), <<".","h","t","m","l">>)
    /\ ~\E i \in 1..Len(DirOf(path)) :
           i > Len(Split(settings.exportPath, "/")) /\ DirOf(path)[i] = <<"a","s","s","e","t","s">>
    /\ path \notin written

\* C29: stale-file removal runs only after every document of the run has
\* been written: a step deletes files only when it completes a run, every
\* file of that run's export set is then written, and the files deleted are
\* exactly the files under the export path whose name ends in .html in any
\* case, that are in no directory named assets and are not among the paths
\* the run has written; no file the run has written, no other kind of file
\* and nothing under assets is deleted.
C29_StaleRemovalExact ==
    [][/\ (DOMAIN outputFiles \ DOMAIN outputFiles' # {}) =>
              \E r \in Runs : ~Completed(r) /\ Completed(r)'
       /\ \A r \in Runs :
              (~Completed(r) /\ Completed(r)') =>
                  /\ run'[r].exportedCount = Len(run[r].allExportFiles)
                  /\ \A p \in run'[r].exportedHtmlPaths : p \in DOMAIN outputFiles'
                  /\ DOMAIN outputFiles' =
                         {p \in DOMAIN outputFiles \cup run'[r].exportedHtmlPaths :
                             ~ClaimStale(p, run'[r].exportedHtmlPaths)}]_vars

\* C29's case: a run has completed; of the files of earlier exports the
\* .html and .HTML files are gone, and the text file, the files in assets
\* directories and the file outside the export path are still there.
C29_Witness ==
    /\ \E r \in Runs : Completed(r)
    /\ <<"o","u","t","/","o","l","d",".","h","t","m","l">> \notin DOMAIN outputFiles
    /\ <<"o","u","t","/","d","/","x",".","H","T","M","L">> \notin DOMAIN outputFiles
    /\ {<<"o","u","t","/","n","o","t","e",".","t","x","t">>, <<"o","u","t","/","a","s","s","e","t","s","/","a",".","h","t","m","l">>, <<"o","u","t","/","d","/","a","s","s","e","t","s","/","b",".","h","t","m","l">>, <<"o","u","t","e","r","/","z",".","h","t","m","l">>}
           \subseteq DOMAIN outputFiles
    /\ <<"o","u","t","/","i","n","d","e","x",".","h","t","m","l">> \in DOMAIN outputFiles

(***************************************************************************)
(* Claims about a run during which the settings are changed (SpecSettings).*)
(***************************************************************************)
\* C28 - as claimed: every document written during an export run, the index
\* page written after the main loop included, was a member of the file list
\* given to that run's buildPathMappings and is in the exported set, even if
\* the settings (indexPage, exportPath) are changed through the settings tab
\* while the run is suspended at an await.
C28_WrittenDocumentsWereMapped ==
    [][\A r \in Runs :
          (FileRender(r) /\ run'[r].exportedCount = run[r].exportedCount + 1) =>
              /\ InSeq(run[r].allExportFiles, run[r].file)
              /\ isFileExported(linkResolver[1], run[r].file)]_vars
=============================================================================
